---- MODULE Spec2Model ----
(***************************************************************************)
(* git2r: R bindings to libgit2.  Every exported routine opens a           *)
(* repository handle, calls the library, marshals the result into an R     *)
(* object and frees the handle.  The model keeps the on-disk repository    *)
(* (commits, references, HEAD, notes) as the state, one action per         *)
(* exported routine, and the outcome of the latest call in `last`.         *)
(***************************************************************************)
EXTENDS Integers, Sequences, FiniteSets, TLC

VARIABLES
    repo,      \* the repository at RepoPath: [exists, bare]
    commits,   \* commit objects in creation order: commits[i] = [parents, time]
    refs,      \* direct references: name -> commit id, NoCommit when absent
    head,      \* the HEAD reference: [symbolic, name, target]
    notes,     \* notes reference -> [exists, tree: annotated object -> message]
    config,    \* repository configuration: [notesRef, remoteUrl]
    tagRefs,   \* tag name -> [kind, target], kind "none" when absent
    handles,   \* repository handles opened and not yet freed
    last       \* outcome of the latest call from R

vars == <<repo, commits, refs, head, notes, config, tagRefs, handles, last>>

-----------------------------------------------------------------------------
(* Bounds of the model *)

MaxCommits == 3
MaxHandles == 2

-----------------------------------------------------------------------------
(* libgit2 error codes *)

GIT_OK == 0
GIT_ERROR == -1
GIT_ENOTFOUND == -3
GIT_EEXISTS == -4
GIT_EUNBORNBRANCH == -9
GIT_ITEROVER == -31

-----------------------------------------------------------------------------
(* Values *)

RepoPath == "P"
Paths == {"P", "Q"}
Objects == {"X", "Y"}
ObjectOrder == <<"X", "Y">>
Messages == {"m1", "m2"}
NoNote == "none"
NotesRefs == {"refs/notes/commits", "refs/notes/review"}
NoCommit == 0

(* R values: every value carries its class. *)
R_NilValue == [class |-> "NULL"]
ScalarLogical(b) == [class |-> "logical", v |-> b]
ScalarString(str) == [class |-> "character", v |-> str]
RList(items) == [class |-> "list", items |-> items]
RepositoryObject(path) == [class |-> "git_repository", path |-> path]

EmptyTree == [o \in Objects |-> NoNote]
NoNotesRef == [exists |-> FALSE, tree |-> EmptyTree]

Idle == [op |-> "none", args |-> <<>>, status |-> "ok", msg |-> "",
         err |-> 0, value |-> R_NilValue, protect |-> 0, held |-> 0]

(* A call that returns `v` to R; `p` is PROTECTs minus UNPROTECTs.  A
   routine that returns although a library call has failed keeps that
   call's code in `err`.  `held` is the number of native resources the
   call acquired for the items of a list and has not released at its end. *)
Return(op, args, v, p) ==
    [op |-> op, args |-> args, status |-> "ok", msg |-> "", err |-> 0,
     value |-> v, protect |-> p, held |-> 0]

(* A call that ends in error(): control leaves the routine, no value.
   `e` is the library's error code behind it, 0 when there is none. *)
Raise(op, args, m, e, p) ==
    [op |-> op, args |-> args, status |-> "error", msg |-> m, err |-> e,
     value |-> R_NilValue, protect |-> p, held |-> 0]

git2r_err_invalid_repository == "Invalid repository"
git2r_err_from_libgit2 == "libgit2"

-----------------------------------------------------------------------------
(* Repository handle *)

(* git_repository_open: 0 and a handle when a repository is at the path. *)
git_repository_open(r, path) ==
    IF path = RepoPath /\ r.exists THEN GIT_OK ELSE GIT_ENOTFOUND

(* git2r_repository_open: NULL for R_NilValue, a non-repository object or
   a failing git_repository_open, else the handle. *)
git2r_repository_open(r, repoArg) ==
    IF repoArg.class # "git_repository" THEN FALSE
    ELSE git_repository_open(r, repoArg.path) >= 0

-----------------------------------------------------------------------------
(* Notes: the library *)

HasNote(ns, ref, oid) == ns[ref].exists /\ ns[ref].tree[oid] # NoNote

(* git_note_create: GIT_EEXISTS when the object has a note and overwrite
   is 0; else the note is written and the notes reference advanced. *)
git_note_create(ns, ref, oid, msg, overwrite) ==
    IF HasNote(ns, ref, oid) /\ overwrite = 0
    THEN [err |-> GIT_EEXISTS, notes |-> ns]
    ELSE [err |-> GIT_OK,
          notes |-> [ns EXCEPT ![ref] =
                        [exists |-> TRUE,
                         tree |-> [@.tree EXCEPT ![oid] = msg]]]]

(* git_note_read: the note of an object, GIT_ENOTFOUND when there is none. *)
git_note_read(ns, ref, oid) ==
    IF HasNote(ns, ref, oid)
    THEN [err |-> GIT_OK, message |-> ns[ref].tree[oid]]
    ELSE [err |-> GIT_ENOTFOUND, message |-> NoNote]

(* git_note_remove: GIT_ENOTFOUND when the reference or the note is
   absent; else the entry is removed and the reference advanced. *)
git_note_remove(ns, ref, oid) ==
    IF HasNote(ns, ref, oid)
    THEN [err |-> GIT_OK,
          notes |-> [ns EXCEPT ![ref].tree[oid] = NoNote]]
    ELSE [err |-> GIT_ENOTFOUND, notes |-> ns]

(* The entries git_note_foreach visits, in tree order. *)
NoteEntries(ns, ref) ==
    SelectSeq(ObjectOrder, LAMBDA o : ns[ref].tree[o] # NoNote)

(* git_note_default_ref: core.notesRef, "refs/notes/commits" when unset. *)
git_note_default_ref(cfg) == cfg.notesRef

-----------------------------------------------------------------------------
(* Notes: the bindings *)

Blob(msg) == <<"blob", msg>>

NoFault == [at |-> "none", k |-> 0]
FaultAt(a) == [at |-> a, k |-> 0]

(* A library call that the environment lets fail returns GIT_ERROR and
   does nothing. *)
Failing(fault, a, k) == fault.at = a /\ fault.k = k

(* git2r_note_init: read the note back and fill the slots of a git_note. *)
git2r_note_init(ns, blob, oid, ref, repoArg, fault, k) ==
    LET rd == IF Failing(fault, "git_note_read", k)
              THEN [err |-> GIT_ERROR, message |-> NoNote]
              ELSE git_note_read(ns, ref, oid)
    IN  IF rd.err < 0
        THEN [err |-> rd.err, note |-> R_NilValue]
        ELSE [err |-> 0,
              note |-> [class |-> "git_note", hex |-> blob, annotated |-> oid,
                        message |-> rd.message, refname |-> ref,
                        repo |-> repoArg]]

(* Mutant: the overwrite flag is always set. *)
OverwriteAlways(force) == 1

(* The overwrite flag handed to git_note_create. *)
Overwrite(force) == IF force THEN 1 ELSE 0

(* git2r_note_create, from the argument check to the return or error(). *)
NoteCreateCall(r, ns, valid, repoArg, oid, msg, ref, force, fault) ==
    LET args == [repo |-> repoArg, hex |-> oid, message |-> msg,
                 ref |-> ref, force |-> force]
        op == "git2r_note_create"
        libErr(e) == [last |-> Raise(op, args, git2r_err_from_libgit2, e, 0),
                      notes |-> ns, opened |-> 1, freed |-> 1]
    IN  IF ~valid
        THEN [last |-> Raise(op, args, "Invalid arguments to git2r_note_create", 0, 0),
              notes |-> ns, opened |-> 0, freed |-> 0]
        ELSE IF ~git2r_repository_open(r, repoArg)
        THEN [last |-> Raise(op, args, git2r_err_invalid_repository, 0, 0),
              notes |-> ns, opened |-> 0, freed |-> 0]
        ELSE IF Failing(fault, "git2r_signature_from_arg", 0)
        THEN libErr(GIT_ERROR)
        ELSE LET cr == IF Failing(fault, "git_note_create", 0)
                       THEN [err |-> GIT_ERROR, notes |-> ns]
                       ELSE git_note_create(ns, ref, oid, msg, Overwrite(force))
             IN  IF cr.err < 0
                 THEN libErr(cr.err)
                 ELSE LET init == git2r_note_init(cr.notes, Blob(msg), oid, ref,
                                                  repoArg, fault, 0)
                      IN  IF init.err < 0
                          THEN [libErr(init.err) EXCEPT !.notes = cr.notes]
                          ELSE [last |-> Return(op, args, init.note, 0),
                                notes |-> cr.notes, opened |-> 1, freed |-> 1]

NoteCreateFaults ==
    {NoFault, FaultAt("git2r_signature_from_arg"), FaultAt("git_note_create"),
     FaultAt("git_note_read")}

RepoArgs == {RepositoryObject(p) : p \in Paths} \cup {R_NilValue}

git2r_note_create(valid, repoArg, oid, msg, ref, force, fault) ==
    LET c == NoteCreateCall(repo, notes, valid, repoArg, oid, msg, ref, force, fault)
    IN  /\ last' = c.last
        /\ notes' = c.notes
        /\ handles' = handles + c.opened - c.freed
        /\ UNCHANGED <<tagRefs, repo, commits, refs, head, config>>

(* git_note_foreach with git2r_note_list_cb in the filling pass: one
   git2r_note_init and one SET_VECTOR_ELT(list, n, note) per entry.  `n` is
   cb_data->n.  A store past the allocated length is undefined behaviour
   and ends the pass with `oob`. *)
RECURSIVE NoteListFill(_, _, _, _, _, _, _)
NoteListFill(ns, ref, repoArg, entries, n, list, fault) ==
    IF n >= Len(entries)
    THEN [err |-> 0, list |-> list, n |-> n, oob |-> FALSE]
    ELSE LET oid == entries[n + 1]
             init == git2r_note_init(ns, Blob(ns[ref].tree[oid]), oid, ref,
                                     repoArg, fault, n + 1)
         IN  IF init.err < 0
             THEN [err |-> init.err, list |-> list, n |-> n, oob |-> FALSE]
             ELSE IF n >= Len(list)
             THEN [err |-> 0, list |-> list, n |-> n, oob |-> TRUE]
             ELSE NoteListFill(ns, ref, repoArg, entries, n + 1,
                               [list EXCEPT ![n + 1] = init.note], fault)

(* git_note_foreach in the counting pass: the callback only counts. *)
NoteListCount(ns, ref, fault) ==
    IF Failing(fault, "git_note_foreach", 1)
    THEN [err |-> GIT_ERROR, n |-> 0]
    ELSE IF ~ns[ref].exists
    THEN [err |-> GIT_ENOTFOUND, n |-> 0]
    ELSE [err |-> 0, n |-> Len(NoteEntries(ns, ref))]

(* allocVector(VECSXP, n): n slots holding R_NilValue. *)
allocVector(n) == [i \in 1..n |-> R_NilValue]

(* The notes reference git2r_note_list reads: the ref argument, or the
   repository's default when the argument is R_NilValue. *)
NotesRefOf(cfg, refArg, fault) ==
    IF refArg # R_NilValue
    THEN [err |-> 0, ref |-> refArg.v]
    ELSE IF Failing(fault, "git_note_default_ref", 0)
    THEN [err |-> GIT_ERROR, ref |-> ""]
    ELSE [err |-> 0, ref |-> git_note_default_ref(cfg)]

(* Mutant: every error of the counting pass gives an empty list. *)
CountErrorAlwaysEmptyList(err) == err < 0

(* What git2r_note_list does with the error of the counting pass. *)
CountErrorIsEmptyList(err) == err = GIT_ENOTFOUND

(* git2r_note_list, from the argument check to the return or error(). *)
NoteListCall(r, ns, cfg, repoArg, refArg, fault) ==
    LET args == [repo |-> repoArg, ref |-> refArg]
        op == "git2r_note_list"
        libErr(e) == [last |-> Raise(op, args, git2r_err_from_libgit2, e, 0),
                      opened |-> 1, freed |-> 1]
    IN  IF refArg # R_NilValue /\ refArg.class # "character"
        THEN [last |-> Raise(op, args, "Invalid arguments to git2r_note_list", 0, 0),
              opened |-> 0, freed |-> 0]
        ELSE IF ~git2r_repository_open(r, repoArg)
        THEN [last |-> Raise(op, args, git2r_err_invalid_repository, 0, 0),
              opened |-> 0, freed |-> 0]
        ELSE LET nr == NotesRefOf(cfg, refArg, fault)
             IN  IF nr.err < 0
                 THEN libErr(nr.err)
                 ELSE LET cnt == NoteListCount(ns, nr.ref, fault)
                      IN  IF cnt.err < 0
                          THEN IF CountErrorIsEmptyList(cnt.err)
                               THEN [last |-> Return(op, args, RList(<<>>), 0),
                                     opened |-> 1, freed |-> 1]
                               ELSE libErr(cnt.err)
                          ELSE LET fill ==
                                     IF Failing(fault, "git_note_foreach", 2)
                                     THEN [err |-> GIT_ERROR, list |-> allocVector(cnt.n),
                                           n |-> 0, oob |-> FALSE]
                                     ELSE NoteListFill(ns, nr.ref, repoArg,
                                                       NoteEntries(ns, nr.ref), 0,
                                                       allocVector(cnt.n), fault)
                               IN  IF fill.oob
                                   THEN [last |-> [Raise(op, args, "undefined behaviour", 0, 0)
                                                     EXCEPT !.status = "undefined"],
                                         opened |-> 1, freed |-> 1]
                                   ELSE IF fill.err < 0
                                   THEN libErr(fill.err)
                                   ELSE [last |-> Return(op, args, RList(fill.list), 0),
                                         opened |-> 1, freed |-> 1]

NoteListFaults ==
    {NoFault, FaultAt("git_note_default_ref")}
    \cup {[at |-> "git_note_foreach", k |-> k] : k \in 1..2}
    \cup {[at |-> "git_note_read", k |-> k] : k \in 1..Cardinality(Objects)}

NotesRefArgs ==
    {ScalarString(ref) : ref \in NotesRefs} \cup {R_NilValue, ScalarLogical(TRUE)}

git2r_note_list(repoArg, refArg, fault) ==
    LET c == NoteListCall(repo, notes, config, repoArg, refArg, fault)
    IN  /\ last' = c.last
        /\ handles' = handles + c.opened - c.freed
        /\ UNCHANGED <<tagRefs, repo, commits, refs, head, notes, config>>

(* Mutant: the error of git_note_remove is dropped. *)
NoteRemoveNeverRaises(err) == FALSE

(* The test at the end of git2r_note_remove: error() when err < 0. *)
NoteRemoveRaises(err) == err < 0

(* git2r_note_remove, from the argument check to the return or error(). *)
NoteRemoveCall(r, ns, valid, note, fault) ==
    LET args == [note |-> note]
        op == "git2r_note_remove"
        libErr(e) == [last |-> Raise(op, args, git2r_err_from_libgit2, e, 0),
                      notes |-> ns, opened |-> 1, freed |-> 1]
    IN  IF ~valid
        THEN [last |-> Raise(op, args, "Invalid arguments to git2r_note_remove", 0, 0),
              notes |-> ns, opened |-> 0, freed |-> 0]
        ELSE IF ~git2r_repository_open(r, note.repo)
        THEN [last |-> Raise(op, args, git2r_err_invalid_repository, 0, 0),
              notes |-> ns, opened |-> 0, freed |-> 0]
        ELSE IF Failing(fault, "git2r_signature_from_arg", 0)
        THEN libErr(GIT_ERROR)
        ELSE LET rm == IF Failing(fault, "git_note_remove", 0)
                       THEN [err |-> GIT_ERROR, notes |-> ns]
                       ELSE git_note_remove(ns, note.refname, note.annotated)
             IN  IF NoteRemoveRaises(rm.err)
                 THEN [libErr(rm.err) EXCEPT !.notes = rm.notes]
                 ELSE [last |-> Return(op, args, R_NilValue, 0),
                       notes |-> rm.notes, opened |-> 1, freed |-> 1]

NoteRemoveFaults ==
    {NoFault, FaultAt("git2r_signature_from_arg"), FaultAt("git_note_remove")}

(* The git_note objects R may hold: the slots git2r_note_remove reads. *)
NoteArgs ==
    {[class |-> "git_note", annotated |-> o, refname |-> ref, repo |-> ra] :
        o \in Objects, ref \in NotesRefs, ra \in RepoArgs}

git2r_note_remove(valid, note, fault) ==
    LET c == NoteRemoveCall(repo, notes, valid, note, fault)
    IN  /\ last' = c.last
        /\ notes' = c.notes
        /\ handles' = handles + c.opened - c.freed
        /\ UNCHANGED <<tagRefs, repo, commits, refs, head, config>>

-----------------------------------------------------------------------------
(* Configuration *)

DefaultNotesRef == "refs/notes/commits"

(* remote.origin.url: unset, or the URL of the remote named origin. *)
NoRemote == ""
RemoteUrl == "U"

(* The loop of config over the variables: git_config_set_string for each,
   leaving at the first failure. *)
RECURSIVE ConfigSetStrings(_, _, _, _)
ConfigSetStrings(cfg, variables, i, fault) ==
    IF i > Len(variables)
    THEN [err |-> 0, config |-> cfg]
    ELSE IF Failing(fault, "git_config_set_string", i)
    THEN [err |-> GIT_ERROR, config |-> cfg]
    ELSE ConfigSetStrings([cfg EXCEPT ![variables[i].key] = variables[i].value],
                          variables, i + 1, fault)

(* config, from the argument check to the return or error(). *)
ConfigCall(r, cfg, repoArg, variables, fault) ==
    LET args == [repo |-> repoArg, variables |-> variables]
        op == "config"
    IN  IF variables = R_NilValue
        THEN [last |-> Raise(op, args, "'variables' equals R_NilValue.", 0, 0),
              config |-> cfg, opened |-> 0, freed |-> 0]
        ELSE IF variables.class # "list"
        THEN [last |-> Raise(op, args, "'variables' must be a list.", 0, 0),
              config |-> cfg, opened |-> 0, freed |-> 0]
        ELSE IF ~git2r_repository_open(r, repoArg)
        THEN [last |-> Raise(op, args, git2r_err_invalid_repository, 0, 0),
              config |-> cfg, opened |-> 0, freed |-> 0]
        ELSE IF Failing(fault, "git_repository_config", 0)
        THEN [last |-> [Return(op, args, R_NilValue, 0) EXCEPT !.err = GIT_ERROR],
              config |-> cfg, opened |-> 1, freed |-> 1]
        ELSE LET set == ConfigSetStrings(cfg, variables.items, 1, fault)
             IN  [last |-> [Return(op, args, R_NilValue, 0) EXCEPT !.err = set.err],
                  config |-> set.config, opened |-> 1, freed |-> 1]

ConfigVariables ==
    {RList(<<>>)}
    \cup {RList(<<[key |-> "notesRef", value |-> a]>>) : a \in NotesRefs}
    \cup {RList(<<[key |-> "notesRef", value |-> a],
                  [key |-> "notesRef", value |-> b]>>) : a, b \in NotesRefs}
    \cup {RList(<<[key |-> "remoteUrl", value |-> RemoteUrl]>>)}
    \cup {R_NilValue, ScalarLogical(TRUE)}

ConfigFaults ==
    {NoFault, FaultAt("git_repository_config")}
    \cup {[at |-> "git_config_set_string", k |-> k] : k \in 1..2}

git2r_config(repoArg, variables, fault) ==
    LET c == ConfigCall(repo, config, repoArg, variables, fault)
    IN  /\ last' = c.last
        /\ config' = c.config
        /\ handles' = handles + c.opened - c.freed
        /\ UNCHANGED <<tagRefs, repo, commits, refs, head, notes>>

-----------------------------------------------------------------------------
(* Creating the repository *)

MasterRef == "refs/heads/master"
RemoteRef == "refs/remotes/origin/master"
RefNames == {MasterRef, RemoteRef}

(* git_repository_init at a fresh location: an empty store and HEAD
   pointing at the unborn master branch. *)
git_repository_init(bare) == [exists |-> TRUE, bare |-> bare]

(* git2r_repository_init, from the argument check to the return or error(). *)
RepositoryInitCall(r, pathArg, bareArg, fault) ==
    LET args == [path |-> pathArg, bare |-> bareArg]
        op == "git2r_repository_init"
    IN  IF pathArg.class # "character"
        THEN [last |-> Raise(op, args, "path must be a string", 0, 0),
              repo |-> r, opened |-> 0, freed |-> 0]
        ELSE IF bareArg.class # "logical"
        THEN [last |-> Raise(op, args, "bare must be a logical", 0, 0),
              repo |-> r, opened |-> 0, freed |-> 0]
        ELSE IF Failing(fault, "git_repository_init", 0)
        THEN [last |-> Raise(op, args, "Unable to init repository", GIT_ERROR, 0),
              repo |-> r, opened |-> 0, freed |-> 0]
        ELSE [last |-> Return(op, args, R_NilValue, 0),
              repo |-> git_repository_init(bareArg.v), opened |-> 1, freed |-> 1]

PathArgs == {ScalarString(p) : p \in Paths} \cup {R_NilValue}
BareArgs == {ScalarLogical(b) : b \in BOOLEAN} \cup {R_NilValue}

(* The environment calls init only where no repository is yet. *)
git2r_repository_init(pathArg, bareArg, fault) ==
    /\ ~repo.exists
    /\ pathArg.class = "character" => pathArg.v = RepoPath
    /\ LET c == RepositoryInitCall(repo, pathArg, bareArg, fault)
       IN  /\ last' = c.last
           /\ repo' = c.repo
           /\ handles' = handles + c.opened - c.freed
    /\ UNCHANGED <<tagRefs, commits, refs, head, notes, config>>

-----------------------------------------------------------------------------
(* The commit graph: the library *)

Range(f) == {f[i] : i \in DOMAIN f}

Times == {1, 2}

(* The parent lists a new commit may have: none (a root), one, or two
   different ones (a merge), among the `n` commits there are. *)
ParentLists(n) ==
    {<<>>} \cup {<<a>> : a \in 1..n}
           \cup {pq \in (1..n) \X (1..n) : pq[1] # pq[2]}

(* The commit HEAD resolves to, NoCommit when HEAD is unborn. *)
HeadTarget(rf, hd) == IF hd.symbolic THEN rf[hd.name] ELSE hd.target

(* git_repository_is_empty: 1 when the repository has just been
   initialised and holds no reference, else 0. *)
git_repository_is_empty(rf, hd) ==
    IF hd.symbolic /\ \A n \in RefNames : rf[n] = NoCommit THEN 1 ELSE 0

(* git_revwalk_next after git_revwalk_push_head, to the end: the commits
   reachable from `queue`, each once, the latest commit time first and, of
   two commits of one time, the one queued first. *)
RECURSIVE Walk(_, _, _, _)
Walk(cs, queue, seen, out) ==
    IF queue = <<>>
    THEN out
    ELSE LET i == CHOOSE i \in 1..Len(queue) :
                    \A j \in 1..Len(queue) :
                        \/ cs[queue[j]].time < cs[queue[i]].time
                        \/ cs[queue[j]].time = cs[queue[i]].time /\ i <= j
             c == queue[i]
             rest == SubSeq(queue, 1, i - 1) \o SubSeq(queue, i + 1, Len(queue))
             new == SelectSeq(cs[c].parents, LAMBDA q : q \notin seen)
         IN  Walk(cs, rest \o new, seen \cup Range(new), Append(out, c))

RevWalk(cs, root) == Walk(cs, <<root>>, {root}, <<>>)

(* The commits reachable from `c` by one or more parent links. *)
RECURSIVE Ancestors(_, _)
Ancestors(cs, c) ==
    LET ps == Range(cs[c].parents)
    IN  ps \cup UNION {Ancestors(cs, q) : q \in ps}

(* git_graph_descendant_of: 1 when `ancestor` is reachable from `commit`
   by parent links, 0 when it is not (a commit is no descendant of
   itself), an error code when an id is no commit of the repository. *)
git_graph_descendant_of(cs, commit, ancestor) ==
    IF commit \notin 1..Len(cs) \/ ancestor \notin 1..Len(cs)
    THEN GIT_ENOTFOUND
    ELSE IF ancestor \in Ancestors(cs, commit) THEN 1 ELSE 0

-----------------------------------------------------------------------------
(* The commit graph: the bindings *)

(* get_repository: NULL for R_NilValue, a non-repository object or a
   failing git_repository_open, else the handle. *)
get_repository(r, repoArg) ==
    IF repoArg.class # "git_repository" THEN FALSE
    ELSE git_repository_open(r, repoArg.path) >= 0

CommitObject(id, repoArg) == [class |-> "git_commit", hex |-> id, repo |-> repoArg]

(* number_of_revisions: git_revwalk_next until it returns non-zero, the
   end of the walk or an error alike. *)
number_of_revisions(walk, fault) ==
    IF fault.at = "number_of_revisions" /\ fault.k <= Len(walk)
    THEN fault.k - 1
    ELSE Len(walk)

(* The return code of the (i+1)-th git_revwalk_next of the filling pass. *)
git_revwalk_next(walk, i, fault) ==
    IF Failing(fault, "git_revwalk_next", i + 1) THEN GIT_ERROR
    ELSE IF i >= Len(walk) THEN GIT_ITEROVER
    ELSE 0

(* The filling loop of revisions; `i` commits are stored so far.  A store
   past the allocated length is undefined behaviour and ends the pass
   with `oob`. *)
RECURSIVE RevisionsFill(_, _, _, _, _)
RevisionsFill(walk, i, list, repoArg, fault) ==
    LET rc == git_revwalk_next(walk, i, fault)
    IN  IF rc < 0
        THEN [err |-> IF rc = GIT_ITEROVER THEN 0 ELSE rc, list |-> list,
              oob |-> FALSE]
        ELSE IF Failing(fault, "git_commit_lookup", i + 1)
        THEN [err |-> GIT_ERROR, list |-> list, oob |-> FALSE]
        ELSE IF i >= Len(list)
        THEN [err |-> 0, list |-> list, oob |-> TRUE]
        ELSE RevisionsFill(walk, i + 1,
                           [list EXCEPT ![i + 1] = CommitObject(walk[i + 1], repoArg)],
                           repoArg, fault)

(* git_revwalk_push_head: an error when HEAD does not resolve. *)
git_revwalk_push_head(rf, hd, fault, pass) ==
    IF Failing(fault, "git_revwalk_push_head", pass) THEN GIT_ERROR
    ELSE IF HeadTarget(rf, hd) = NoCommit THEN GIT_ENOTFOUND
    ELSE 0

(* Mutant: revisions takes no shortcut for an empty repository. *)
RevisionsNeverEmpty(empty) == FALSE

(* The test of revisions on git_repository_is_empty: any non-zero value,
   an error code included, counts as empty. *)
RevisionsIsEmpty(empty) == empty # 0

(* revisions, from get_repository to the return or error().  `walkers` is
   the number of git_revwalk_new calls that made a walker; `ub` is what a
   store past the end of the list does: "crash" (the process ends, and
   its handles with it), or "overrun" (the store lands outside the list
   and the routine goes on). *)
RevisionsCall(r, cs, rf, hd, repoArg, fault, ub) ==
    LET args == [repo |-> repoArg]
        op == "revisions"
        out(l, w) == [last |-> l, walkers |-> w, opened |-> 1, freed |-> 1]
        libErr(e, p) == Raise(op, args, git2r_err_from_libgit2, e, p)
        empty == IF Failing(fault, "git_repository_is_empty", 0)
                 THEN GIT_ERROR ELSE git_repository_is_empty(rf, hd)
    IN  IF ~get_repository(r, repoArg)
        THEN [last |-> Raise(op, args, git2r_err_invalid_repository, 0, 0),
              walkers |-> 0, opened |-> 0, freed |-> 0]
        ELSE IF RevisionsIsEmpty(empty)
        THEN out([Return(op, args, RList(<<>>), 0)
                    EXCEPT !.err = IF empty < 0 THEN empty ELSE 0], 0)
        ELSE IF Failing(fault, "git_revwalk_new", 0)
        THEN out(libErr(GIT_ERROR, -1), 0)
        ELSE LET push1 == git_revwalk_push_head(rf, hd, fault, 1)
             IN  IF push1 < 0
                 THEN out(libErr(push1, -1), 1)
                 ELSE LET walk == RevWalk(cs, HeadTarget(rf, hd))
                          n == number_of_revisions(walk, fault)
                          push2 == git_revwalk_push_head(rf, hd, fault, 2)
                          fill == RevisionsFill(walk, 0, allocVector(n), repoArg, fault)
                      IN  IF push2 < 0
                          THEN out(libErr(push2, 0), 1)
                          ELSE IF fill.oob
                          THEN IF ub = "crash"
                               THEN [last |-> [Raise(op, args, "undefined behaviour", 0, 1)
                                                 EXCEPT !.status = "crash"],
                                     walkers |-> 1, opened |-> 1, freed |-> 1]
                               ELSE out([Return(op, args, RList(fill.list), 0)
                                           EXCEPT !.status = "overrun"], 1)
                          ELSE IF fill.err < 0
                          THEN out(libErr(fill.err, 0), 1)
                          ELSE out(Return(op, args, RList(fill.list), 0), 1)

RevisionsFaults ==
    {NoFault, FaultAt("git_repository_is_empty"), FaultAt("git_revwalk_new")}
    \cup {[at |-> "git_revwalk_push_head", k |-> k] : k \in 1..2}
    \cup {[at |-> "number_of_revisions", k |-> k] : k \in 1..MaxCommits}
    \cup {[at |-> "git_revwalk_next", k |-> k] : k \in 1..(MaxCommits + 1)}
    \cup {[at |-> "git_commit_lookup", k |-> k] : k \in 1..MaxCommits}

revisions(repoArg, fault, ub) ==
    LET c == RevisionsCall(repo, commits, refs, head, repoArg, fault, ub)
    IN  /\ last' = [c.last EXCEPT !.args = [repo |-> repoArg, walkers |-> c.walkers]]
        /\ handles' = handles + c.opened - c.freed
        /\ UNCHANGED <<tagRefs, repo, commits, refs, head, notes, config>>

(* Mutant: a negative result is taken for "no descendant". *)
DescendantOfResultNoError(result) ==
    IF result <= 0 THEN "FALSE" ELSE "TRUE"

(* What git2r_graph_descendant_of makes of the library's result. *)
DescendantOfResult(result) ==
    IF result < 0 THEN "error"
    ELSE IF 0 = result THEN "FALSE"
    ELSE "TRUE"

(* GET_SLOT: R raises an error, leaving the C routine at once, when the
   object has no slot of the name. *)
HasSlot(obj, name) == name \in DOMAIN obj
r_err_no_slot == "no slot of name"

(* git2r_graph_descendant_of, from the repo slot to the return or error().
   The hex slot of `ancestor` is read, unchecked, while the repository is
   open. *)
GraphDescendantOfCall(r, cs, commit, ancestor, fault) ==
    LET args == [commit |-> commit, ancestor |-> ancestor]
        op == "git2r_graph_descendant_of"
        result == IF Failing(fault, "git_graph_descendant_of", 0)
                  THEN GIT_ERROR
                  ELSE git_graph_descendant_of(cs, commit.hex, ancestor.hex)
        res == DescendantOfResult(result)
    IN  IF ~git2r_repository_open(r, commit.repo)
        THEN [last |-> Raise(op, args, git2r_err_invalid_repository, 0, 0),
              opened |-> 0, freed |-> 0]
        ELSE IF ~HasSlot(ancestor, "hex")
        THEN [last |-> Raise(op, args, r_err_no_slot, 0, 0),
              opened |-> 1, freed |-> 0]
        ELSE IF res = "error"
        THEN [last |-> Raise(op, args, git2r_err_from_libgit2, result, 0),
              opened |-> 1, freed |-> 1]
        ELSE [last |-> Return(op, args, ScalarLogical(res = "TRUE"), 0),
              opened |-> 1, freed |-> 1]

(* The git_commit objects R may hold; an id may name no commit of the
   repository (yet). *)
CommitArgs ==
    {CommitObject(id, ra) : id \in 1..MaxCommits, ra \in RepoArgs}

git2r_graph_descendant_of(commit, ancestor, fault) ==
    LET c == GraphDescendantOfCall(repo, commits, commit, ancestor, fault)
    IN  /\ last' = c.last
        /\ handles' = handles + c.opened - c.freed
        /\ UNCHANGED <<tagRefs, repo, commits, refs, head, notes, config>>

-----------------------------------------------------------------------------
(* The repository: the library *)

(* The reference git_repository_head resolves HEAD to: the branch HEAD
   points at, HEAD itself when it is detached, GIT_EUNBORNBRANCH when the
   reference HEAD points at does not exist. *)
git_repository_head(rf, hd) ==
    IF hd.symbolic
    THEN IF rf[hd.name] = NoCommit
         THEN [err |-> GIT_EUNBORNBRANCH, name |-> "", target |-> NoCommit]
         ELSE [err |-> GIT_OK, name |-> hd.name, target |-> rf[hd.name]]
    ELSE [err |-> GIT_OK, name |-> "HEAD", target |-> hd.target]

(* git_reference_is_branch: the reference lives under refs/heads/. *)
git_reference_is_branch(reference) == reference.name = MasterRef

(* git_reference_is_remote: the reference lives under refs/remotes/. *)
git_reference_is_remote(reference) == reference.name = RemoteRef

(* git_repository_head_detached: 1 when HEAD holds an object id itself,
   0 when it points at a reference. *)
git_repository_head_detached(hd) == IF hd.symbolic THEN 0 ELSE 1

(* git_commit_lookup: GIT_ENOTFOUND when the id names no commit. *)
git_commit_lookup(cs, id) ==
    IF id \in 1..Len(cs) THEN GIT_OK ELSE GIT_ENOTFOUND

git_repository_is_bare(r) == IF r.bare THEN 1 ELSE 0

NullPointer == "(null)"

(* git_repository_workdir: NULL for a bare repository. *)
git_repository_workdir(r) == IF r.bare THEN NullPointer ELSE RepoPath

-----------------------------------------------------------------------------
(* The repository: the bindings *)

BranchObject(reference, type, repoArg) ==
    [class |-> "git_branch", name |-> reference.name, type |-> type,
     repo |-> repoArg]

(* git2r_repository_head, from git2r_repository_open to the return or
   the error. *)
RepositoryHeadCall(r, cs, rf, hd, repoArg, fault) ==
    LET args == [repo |-> repoArg]
        op == "git2r_repository_head"
        reference == git_repository_head(rf, hd)
        err == IF Failing(fault, "git_repository_head", 0) THEN GIT_ERROR
               ELSE IF Failing(fault, "git_repository_head", 1) THEN GIT_ENOTFOUND
               ELSE reference.err
        type == IF git_reference_is_remote(reference) THEN "remote" ELSE "local"
        lookup == IF Failing(fault, "git_commit_lookup", 0) THEN GIT_ERROR
                  ELSE git_commit_lookup(cs, reference.target)
        out(l) == [last |-> l, opened |-> 1, freed |-> 1]
    IN  IF ~git2r_repository_open(r, repoArg)
        THEN [last |-> Raise(op, args, git2r_err_invalid_repository, 0, 0),
              opened |-> 0, freed |-> 0]
        ELSE IF GIT_OK # err
        THEN IF GIT_EUNBORNBRANCH = err \/ GIT_ENOTFOUND = err
             THEN out(Return(op, args, R_NilValue, 0))
             ELSE out(Raise(op, args, git2r_err_from_libgit2, err, 0))
        ELSE IF git_reference_is_branch(reference)
        THEN IF Failing(fault, "git2r_branch_init", 0)
             THEN out(Raise(op, args, git2r_err_from_libgit2, GIT_ERROR, 0))
             ELSE out(Return(op, args, BranchObject(reference, type, repoArg), 0))
        ELSE IF GIT_OK # lookup
        THEN out(Raise(op, args, git2r_err_from_libgit2, lookup, 0))
        ELSE out(Return(op, args, CommitObject(reference.target, repoArg), 0))

RepositoryHeadFaults ==
    {NoFault, FaultAt("git_repository_head"),
     [at |-> "git_repository_head", k |-> 1],
     FaultAt("git2r_branch_init"), FaultAt("git_commit_lookup")}

git2r_repository_head(repoArg, fault) ==
    LET c == RepositoryHeadCall(repo, commits, refs, head, repoArg, fault)
    IN  /\ last' = c.last
        /\ handles' = handles + c.opened - c.freed
        /\ UNCHANGED <<tagRefs, repo, commits, refs, head, notes, config>>

(* git2r_repository_head_detached, from git2r_repository_open to the
   return or the error. *)
HeadDetachedCall(r, hd, repoArg, fault) ==
    LET args == [repo |-> repoArg]
        op == "git2r_repository_head_detached"
        head_detached == IF Failing(fault, "git_repository_head_detached", 0)
                         THEN GIT_ERROR
                         ELSE git_repository_head_detached(hd)
    IN  IF ~git2r_repository_open(r, repoArg)
        THEN [last |-> Raise(op, args, git2r_err_invalid_repository, 0, 0),
              opened |-> 0, freed |-> 0]
        ELSE IF head_detached < 0
        THEN [last |-> Raise(op, args, git2r_err_from_libgit2, head_detached, 0),
              opened |-> 1, freed |-> 1]
        ELSE [last |-> Return(op, args, ScalarLogical(1 = head_detached), 0),
              opened |-> 1, freed |-> 1]

git2r_repository_head_detached(repoArg, fault) ==
    LET c == HeadDetachedCall(repo, head, repoArg, fault)
    IN  /\ last' = c.last
        /\ handles' = handles + c.opened - c.freed
        /\ UNCHANGED <<tagRefs, repo, commits, refs, head, notes, config>>

(* git2r_repository_is_bare, from git2r_repository_open to the return
   or the error. *)
IsBareCall(r, repoArg) ==
    LET args == [repo |-> repoArg]
        op == "git2r_repository_is_bare"
    IN  IF ~git2r_repository_open(r, repoArg)
        THEN [last |-> Raise(op, args, git2r_err_invalid_repository, 0, 0),
              opened |-> 0, freed |-> 0]
        ELSE [last |-> Return(op, args,
                              ScalarLogical(1 = git_repository_is_bare(r)), 0),
              opened |-> 1, freed |-> 1]

git2r_repository_is_bare(repoArg) ==
    LET c == IsBareCall(repo, repoArg)
    IN  /\ last' = c.last
        /\ handles' = handles + c.opened - c.freed
        /\ UNCHANGED <<tagRefs, repo, commits, refs, head, notes, config>>

(* What mkChar(NULL) can do: the process dies reading address 0, or the
   read goes through and some string comes back. *)
MkCharNullOutcomes == {"crash", "garbage"}

(* mkChar: the CHARSXP of a C string; of a NULL pointer, one of
   MkCharNullOutcomes. *)
mkChar(str, ub) ==
    IF str # NullPointer THEN [status |-> "ok", v |-> str]
    ELSE IF ub = "crash" THEN [status |-> "crash", v |-> ""]
    ELSE [status |-> "ok", v |-> "garbage"]

(* The end of a workdir routine that has called mkChar(wd). *)
WorkdirResult(op, repoArg, wd, ub) ==
    LET args == [repo |-> repoArg, mkChar |-> wd]
        chr == mkChar(wd, ub)
    IN  IF chr.status = "crash"
        THEN [Raise(op, args, "mkChar(NULL)", 0, 0) EXCEPT !.status = "crash"]
        ELSE Return(op, args, ScalarString(chr.v), 0)

(* git2r_repository_workdir, from git2r_repository_open to the return
   or the error.  args.mkChar is the pointer handed to mkChar, "none"
   when mkChar is not called. *)
RepositoryWorkdirCall(r, repoArg, ub) ==
    LET op == "git2r_repository_workdir"
        args == [repo |-> repoArg, mkChar |-> "none"]
    IN  IF ~git2r_repository_open(r, repoArg)
        THEN [last |-> Raise(op, args, git2r_err_invalid_repository, 0, 0),
              opened |-> 0, freed |-> 0]
        ELSE IF 0 = git_repository_is_bare(r)
        THEN [last |-> WorkdirResult(op, repoArg, git_repository_workdir(r), ub),
              opened |-> 1, freed |-> 1]
        ELSE [last |-> Return(op, args, R_NilValue, 0),
              opened |-> 1, freed |-> 1]

git2r_repository_workdir(repoArg, ub) ==
    LET c == RepositoryWorkdirCall(repo, repoArg, ub)
    IN  /\ last' = c.last
        /\ handles' = handles + c.opened - c.freed
        /\ UNCHANGED <<tagRefs, repo, commits, refs, head, notes, config>>

(* workdir of git2r.c, from get_repository to the return or the error:
   the path goes to mkChar whatever it is. *)
WorkdirCall(r, repoArg, ub) ==
    LET op == "workdir"
        args == [repo |-> repoArg, mkChar |-> "none"]
    IN  IF ~get_repository(r, repoArg)
        THEN [last |-> Raise(op, args, git2r_err_invalid_repository, 0, 0),
              opened |-> 0, freed |-> 0]
        ELSE [last |-> WorkdirResult(op, repoArg, git_repository_workdir(r), ub),
              opened |-> 1, freed |-> 1]

workdir(repoArg, ub) ==
    LET c == WorkdirCall(repo, repoArg, ub)
    IN  /\ last' = c.last
        /\ handles' = handles + c.opened - c.freed
        /\ UNCHANGED <<tagRefs, repo, commits, refs, head, notes, config>>

(* Mutant: git2r_repository_can_open answers TRUE whatever
   git_repository_open returned. *)
CanOpenAlways(can_open) == TRUE

(* What git2r_repository_can_open makes of git_repository_open's result. *)
CanOpenResult(can_open) == ~(0 # can_open)

(* git2r_repository_can_open, from the argument check to the return or
   the error.  args.opens counts the calls of git_repository_open. *)
CanOpenCall(r, pathArg, fault) ==
    LET op == "git2r_repository_can_open"
        args(n) == [path |-> pathArg, opens |-> n]
        can_open == IF Failing(fault, "git_repository_open", 0) THEN GIT_ERROR
                    ELSE git_repository_open(r, pathArg.v)
    IN  IF pathArg.class # "character"
        THEN [last |-> Raise(op, args(0), "path must be a string", 0, 0),
              opened |-> 0, freed |-> 0]
        ELSE [last |-> Return(op, args(1), ScalarLogical(CanOpenResult(can_open)), 0),
              opened |-> IF can_open = 0 THEN 1 ELSE 0,
              freed |-> IF can_open = 0 THEN 1 ELSE 0]

git2r_repository_can_open(pathArg, fault) ==
    LET c == CanOpenCall(repo, pathArg, fault)
    IN  /\ last' = c.last
        /\ handles' = handles + c.opened - c.freed
        /\ UNCHANGED <<tagRefs, repo, commits, refs, head, notes, config>>

(* is_repository of git2r.c, from the argument checks to the return or
   the error. *)
IsRepositoryCall(r, pathArg, fault) ==
    LET op == "is_repository"
        args(n) == [path |-> pathArg, opens |-> n]
        err == IF Failing(fault, "git_repository_open", 0) THEN GIT_ERROR
               ELSE git_repository_open(r, pathArg.v)
    IN  IF pathArg = R_NilValue
        THEN [last |-> Raise(op, args(0), "'path' equals R_NilValue", 0, 0),
              opened |-> 0, freed |-> 0]
        ELSE IF pathArg.class # "character"
        THEN [last |-> Raise(op, args(0), "'path' must be a string", 0, 0),
              opened |-> 0, freed |-> 0]
        ELSE IF err < 0
        THEN [last |-> Return(op, args(1), ScalarLogical(FALSE), 0),
              opened |-> 0, freed |-> 0]
        ELSE [last |-> Return(op, args(1), ScalarLogical(TRUE), 0),
              opened |-> 1, freed |-> 1]

is_repository(pathArg, fault) ==
    LET c == IsRepositoryCall(repo, pathArg, fault)
    IN  /\ last' = c.last
        /\ handles' = handles + c.opened - c.freed
        /\ UNCHANGED <<tagRefs, repo, commits, refs, head, notes, config>>

(* Mutant: git2r_repository_is_empty answers TRUE whatever the library
   says. *)
IsEmptyResultAlways(is_empty) == TRUE

(* What git2r_repository_is_empty makes of a non-negative result. *)
IsEmptyResult(is_empty) == 1 = is_empty

(* git2r_repository_is_empty, from git2r_repository_open to the return
   or the error. *)
IsEmptyCall(r, rf, hd, repoArg, fault) ==
    LET args == [repo |-> repoArg]
        op == "git2r_repository_is_empty"
        is_empty == IF Failing(fault, "git_repository_is_empty", 0)
                    THEN GIT_ERROR
                    ELSE git_repository_is_empty(rf, hd)
    IN  IF ~git2r_repository_open(r, repoArg)
        THEN [last |-> Raise(op, args, git2r_err_invalid_repository, 0, 0),
              opened |-> 0, freed |-> 0]
        ELSE IF is_empty < 0
        THEN [last |-> Raise(op, args, git2r_err_from_libgit2, is_empty, 0),
              opened |-> 1, freed |-> 1]
        ELSE [last |-> Return(op, args, ScalarLogical(IsEmptyResult(is_empty)), 0),
              opened |-> 1, freed |-> 1]

git2r_repository_is_empty(repoArg, fault) ==
    LET c == IsEmptyCall(repo, refs, head, repoArg, fault)
    IN  /\ last' = c.last
        /\ handles' = handles + c.opened - c.freed
        /\ UNCHANGED <<tagRefs, repo, commits, refs, head, notes, config>>

(* The one remote a repository may have. *)
Origin == "origin"

(* git_remote_load: GIT_ENOTFOUND when the configuration has no remote
   of that name. *)
git_remote_load(cfg, name) ==
    IF name = Origin /\ cfg.remoteUrl # NoRemote THEN GIT_OK ELSE GIT_ENOTFOUND

(* git_remote_fetch: the remote-tracking reference moves to the remote's
   tip `tip`; nothing moves when there is nothing new (NoCommit). *)
git_remote_fetch(rf, tip) ==
    IF tip = NoCommit THEN rf ELSE [rf EXCEPT ![RemoteRef] = tip]

(* fetch, from the argument check to the return or the error. *)
FetchCall(r, cfg, rf, repoArg, nameArg, tip, fault) ==
    LET args == [repo |-> repoArg, name |-> nameArg]
        op == "fetch"
        out(l, f) == [last |-> l, refs |-> f, opened |-> 1, freed |-> 1]
        load == IF Failing(fault, "git_remote_load", 0) THEN GIT_ERROR
                ELSE git_remote_load(cfg, nameArg.v)
    IN  IF nameArg = R_NilValue \/ nameArg.class # "character"
        THEN [last |-> Raise(op, args, "Invalid arguments to fetch", 0, 0),
              refs |-> rf, opened |-> 0, freed |-> 0]
        ELSE IF ~get_repository(r, repoArg)
        THEN [last |-> Raise(op, args, git2r_err_invalid_repository, 0, 0),
              refs |-> rf, opened |-> 0, freed |-> 0]
        ELSE IF load < 0
        THEN out([Return(op, args, R_NilValue, 0) EXCEPT !.err = load], rf)
        ELSE IF Failing(fault, "git_remote_fetch", 0)
        THEN out([Return(op, args, R_NilValue, 0) EXCEPT !.err = GIT_ERROR], rf)
        ELSE out(Return(op, args, R_NilValue, 0), git_remote_fetch(rf, tip))

RemoteNameArgs == {ScalarString(Origin), ScalarString("nowhere"), R_NilValue}

FetchFaults == {NoFault, FaultAt("git_remote_load"), FaultAt("git_remote_fetch")}

fetch(repoArg, nameArg, tip, fault) ==
    /\ tip \in 0..Len(commits)
    /\ LET c == FetchCall(repo, config, refs, repoArg, nameArg, tip, fault)
       IN  /\ last' = c.last
           /\ refs' = c.refs
           /\ handles' = handles + c.opened - c.freed
    /\ UNCHANGED <<tagRefs, repo, commits, head, notes, config>>

(* A directory nested in the repository's root. *)
SubPath == "P/sub"

(* The git directory of the repository: the root itself when bare, its
   .git directory otherwise. *)
GitDir(r) == IF r.bare THEN "P/" ELSE "P/.git/"

(* git_repository_discover: walks up from the path; the git directory of
   the first repository met, GIT_ENOTFOUND when there is none. *)
git_repository_discover(r, path) ==
    IF r.exists /\ path \in {RepoPath, SubPath}
    THEN [err |-> GIT_OK, ptr |-> GitDir(r)]
    ELSE [err |-> GIT_ENOTFOUND, ptr |-> ""]

(* Mutant: git2r_repository_discover raises the not-found code too. *)
DiscoverNothingNever(err) == FALSE

(* The code of git_repository_discover that git2r_repository_discover
   answers with R_NilValue. *)
DiscoverNothing(err) == GIT_ENOTFOUND = err

(* git2r_repository_discover, from the argument check to the return or
   the error. *)
DiscoverCall(r, pathArg, fault) ==
    LET op == "git2r_repository_discover"
        args == [path |-> pathArg]
        found == IF Failing(fault, "git_repository_discover", 0)
                 THEN [err |-> GIT_ERROR, ptr |-> ""]
                 ELSE git_repository_discover(r, pathArg.v)
    IN  IF pathArg.class # "character"
        THEN Raise(op, args, "path must be a string", 0, 0)
        ELSE IF GIT_OK # found.err
        THEN IF DiscoverNothing(found.err)
             THEN Return(op, args, R_NilValue, 0)
             ELSE Raise(op, args, git2r_err_from_libgit2, found.err, 0)
        ELSE Return(op, args, ScalarString(found.ptr), 0)

DiscoverPathArgs == PathArgs \cup {ScalarString(SubPath)}

git2r_repository_discover(pathArg, fault) ==
    /\ last' = DiscoverCall(repo, pathArg, fault)
    /\ UNCHANGED <<tagRefs, repo, commits, refs, head, notes, config, handles>>

-----------------------------------------------------------------------------
(* Branches *)

GIT_BRANCH_LOCAL == 1
GIT_BRANCH_REMOTE == 2

(* The references the branch iterator visits under `flags`, local
   branches before remote ones. *)
BranchNames(rf, flags) ==
    SelectSeq(<<MasterRef, RemoteRef>>,
              LAMBDA n : /\ rf[n] # NoCommit
                         /\ \/ n = MasterRef /\ flags \in {GIT_BRANCH_LOCAL, 3}
                            \/ n = RemoteRef /\ flags \in {GIT_BRANCH_REMOTE, 3})

(* The type git_branch_next reports for a reference. *)
git_branch_type(name) ==
    IF name = MasterRef THEN GIT_BRANCH_LOCAL ELSE GIT_BRANCH_REMOTE

(* git_branch_is_head: 1 when HEAD, fully resolved, is this reference. *)
git_branch_is_head(hd, name) ==
    IF hd.symbolic /\ hd.name = name THEN 1 ELSE 0

(* git_branch_remote_name: the length of the remote's name with its
   terminator, GIT_ENOTFOUND when no configured remote owns the
   reference. *)
git_branch_remote_name(cfg, name) ==
    IF cfg.remoteUrl # NoRemote THEN 7 ELSE GIT_ENOTFOUND

(* size_t, scaled down: a negative int stored in it wraps round. *)
SizeModulus == 65536
SizeT(x) == x % SizeModulus

(* malloc: NULL for a size no allocator can give. *)
MallocFails(size, fault) ==
    size >= SizeModulus \div 2 \/ Failing(fault, "malloc", 0)

(* An entry of the list branches returns; a slot the routine does not
   set keeps "unset". *)
BranchEntryHeadless(name, hex, remote, url, isHead) ==
    [class |-> "git_branch", name |-> name, hex |-> hex, remote |-> remote,
     url |-> url, head |-> FALSE]

BranchEntry(name, hex, remote, url, isHead) ==
    [class |-> "git_branch", name |-> name, hex |-> hex, remote |-> remote,
     url |-> url, head |-> isHead]

(* The return code of the k-th git_branch_next of a pass over `names`. *)
git_branch_next(names, k, pass, fault) ==
    IF Failing(fault, pass, k) THEN GIT_ERROR
    ELSE IF k > Len(names) THEN GIT_ITEROVER
    ELSE 0

(* number_of_branches: the count, or the code of the call that failed. *)
RECURSIVE BranchCount(_, _, _)
BranchCount(names, n, fault) ==
    LET err == git_branch_next(names, n + 1, "count git_branch_next", fault)
    IN  IF err < 0
        THEN [err |-> IF GIT_ITEROVER # err THEN err ELSE 0, n |-> n]
        ELSE BranchCount(names, n + 1, fault)

number_of_branches(names, fault) ==
    IF Failing(fault, "git_branch_iterator_new", 1)
    THEN [err |-> GIT_ERROR, n |-> 0]
    ELSE BranchCount(names, 0, fault)

git2r_err_alloc_memory_buffer == "Unable to allocate memory buffer"
git2r_err_unexpected_type_of_branch == "Unexpected type of branch"
git2r_err_unexpected_head_of_branch == "Unexpected head of branch"

(* The body of the filling loop of branches for one reference: the
   entry, or the error that leaves the loop. *)
BranchesEntry(cfg, rf, hd, name, fault) ==
    LET type == IF Failing(fault, "git_branch_type", 0) THEN 0
                ELSE git_branch_type(name)
        buf_size == SizeT(git_branch_remote_name(cfg, name))
        load == IF Failing(fault, "git_remote_load", 0) THEN GIT_ERROR
                ELSE git_remote_load(cfg, Origin)
        url == IF load < 0 THEN Origin ELSE cfg.remoteUrl
        is_head == IF Failing(fault, "git_branch_is_head", 0) THEN GIT_ERROR
                   ELSE git_branch_is_head(hd, name)
        fail(m, h) == [err |-> GIT_ERROR, msg |-> m, held |-> h]
        entry(remote, u) ==
            IF is_head \in {0, 1}
            THEN [err |-> 0, msg |-> "", held |-> 0,
                  entry |-> BranchEntry(name, rf[name], remote, u, is_head = 1)]
            ELSE fail(git2r_err_unexpected_head_of_branch, 1)
    IN  IF type = GIT_BRANCH_LOCAL THEN entry("unset", "unset")
        ELSE IF type = GIT_BRANCH_REMOTE
        THEN IF MallocFails(buf_size, fault)
             THEN fail(git2r_err_alloc_memory_buffer, 1)
             ELSE IF load < 0 /\ Failing(fault, "git_remote_create_inmemory", 0)
             THEN fail(git2r_err_from_libgit2, 2)
             ELSE entry(Origin, url)
        ELSE fail(git2r_err_unexpected_type_of_branch, 1)

(* The filling loop of branches; `i` entries are stored so far.  A store
   past the allocated length is undefined behaviour and ends the pass
   with `oob`. *)
RECURSIVE BranchesFill(_, _, _, _, _, _, _)
BranchesFill(cfg, rf, hd, names, i, list, fault) ==
    LET err == git_branch_next(names, i + 1, "fill git_branch_next", fault)
        e == BranchesEntry(cfg, rf, hd, names[i + 1], fault)
    IN  IF err < 0
        THEN [err |-> IF GIT_ITEROVER = err THEN 0 ELSE err, msg |-> git2r_err_from_libgit2,
              held |-> 0, list |-> list, oob |-> FALSE]
        ELSE IF e.err < 0
        THEN [err |-> e.err, msg |-> e.msg, held |-> e.held, list |-> list, oob |-> FALSE]
        ELSE IF i >= Len(list)
        THEN [err |-> 0, msg |-> "", held |-> 0, list |-> list, oob |-> TRUE]
        ELSE BranchesFill(cfg, rf, hd, names, i + 1,
                          [list EXCEPT ![i + 1] = e.entry], fault)

(* The end of branches, after the counting pass gave `count`, over the
   references `names` the filling pass meets. *)
BranchesFinish(op, args, cfg, rf, hd, names, count, fault, ub) ==
    LET fill == BranchesFill(cfg, rf, hd, names, 0, allocVector(count.n), fault)
    IN  IF count.err < 0
        THEN Raise(op, args, git2r_err_from_libgit2, count.err, 0)
        ELSE IF Failing(fault, "git_branch_iterator_new", 2)
        THEN Raise(op, args, git2r_err_from_libgit2, GIT_ERROR, 0)
        ELSE IF fill.oob
        THEN IF ub = "crash"
             THEN [Raise(op, args, "undefined behaviour", 0, 1)
                     EXCEPT !.status = "crash"]
             ELSE [Return(op, args, RList(fill.list), 0) EXCEPT !.status = "overrun"]
        ELSE IF fill.err < 0
        THEN [Raise(op, args, fill.msg, fill.err, 0) EXCEPT !.held = fill.held]
        ELSE Return(op, args, RList(fill.list), 0)

(* branches, from get_repository to the return or the error. *)
BranchesCall(r, cfg, rf, hd, repoArg, flags, fault, ub) ==
    LET args == [repo |-> repoArg, flags |-> flags]
        op == "branches"
        names == BranchNames(rf, flags)
    IN  IF ~get_repository(r, repoArg)
        THEN [last |-> Raise(op, args, git2r_err_invalid_repository, 0, 0),
              opened |-> 0, freed |-> 0]
        ELSE [last |-> BranchesFinish(op, args, cfg, rf, hd, names,
                                      number_of_branches(names, fault), fault, ub),
              opened |-> 1, freed |-> 1]

BranchFlags == {GIT_BRANCH_LOCAL, GIT_BRANCH_REMOTE, 3}

BranchesFaults ==
    {NoFault, FaultAt("malloc"), FaultAt("git_branch_type"),
     FaultAt("git_remote_load"), FaultAt("git_remote_create_inmemory"),
     FaultAt("git_branch_is_head")}
    \cup {[at |-> "git_branch_iterator_new", k |-> k] : k \in 1..2}
    \cup {[at |-> a, k |-> k] :
            a \in {"count git_branch_next", "fill git_branch_next"}, k \in 1..3}

branches(repoArg, flags, fault, ub) ==
    LET c == BranchesCall(repo, config, refs, head, repoArg, flags, fault, ub)
    IN  /\ last' = c.last
        /\ handles' = handles + c.opened - c.freed
        /\ UNCHANGED <<tagRefs, repo, commits, refs, head, notes, config>>

-----------------------------------------------------------------------------
(* Tags *)

TagNames == {"v1", "v2"}
TagOrder == <<"v1", "v2">>
TagMessage == "t"
NoTag == [kind |-> "none", target |-> NoCommit]

(* git_tag_list: the names of the references under refs/tags/, in
   reference order. *)
git_tag_list(tg) == SelectSeq(TagOrder, LAMBDA n : tg[n].kind # "none")

(* git_reference_dwim of a listed tag name: refs/tags/<name>. *)
git_reference_dwim(tg, name, k, fault) ==
    IF Failing(fault, "git_reference_dwim", k) THEN GIT_ERROR
    ELSE IF tg[name].kind = "none" THEN GIT_ENOTFOUND
    ELSE 0

(* git_tag_lookup of the reference's target: the object must be a tag
   object; the commit a lightweight tag points at is not one. *)
git_tag_lookup(tg, name, k, fault) ==
    IF Failing(fault, "git_tag_lookup", k) THEN GIT_ERROR
    ELSE IF tg[name].kind # "annotated" THEN GIT_ENOTFOUND
    ELSE 0

(* init_tag: the slots of the git_tag object. *)
init_tag(tg, name) ==
    [class |-> "git_tag", name |-> name, message |-> TagMessage,
     target |-> tg[name].target]

(* The loop of tags from index i (1-based) on: the list, or the code of
   the call that failed. *)
RECURSIVE TagsFill(_, _, _, _, _)
TagsFill(tg, names, i, list, fault) ==
    IF i > Len(names) THEN [err |-> 0, list |-> list]
    ELSE LET dwim == git_reference_dwim(tg, names[i], i, fault)
             lookup == git_tag_lookup(tg, names[i], i, fault)
         IN  IF dwim < 0 THEN [err |-> dwim, list |-> list]
             ELSE IF lookup < 0 THEN [err |-> lookup, list |-> list]
             ELSE TagsFill(tg, names, i + 1,
                           Append(list, init_tag(tg, names[i])), fault)

(* tags, from get_repository to the return or the error. *)
TagsCall(r, tg, repoArg, fault) ==
    LET args == [repo |-> repoArg]
        op == "tags"
        names == git_tag_list(tg)
        fill == TagsFill(tg, names, 1, <<>>, fault)
    IN  IF ~get_repository(r, repoArg)
        THEN [last |-> Raise(op, args, git2r_err_invalid_repository, 0, 0),
              opened |-> 0, freed |-> 0]
        ELSE IF Failing(fault, "git_tag_list", 0)
        THEN [last |-> Raise(op, args, git2r_err_from_libgit2, GIT_ERROR, 0),
              opened |-> 1, freed |-> 1]
        ELSE IF fill.err < 0
        THEN [last |-> Raise(op, args, git2r_err_from_libgit2, fill.err, 0),
              opened |-> 1, freed |-> 1]
        ELSE [last |-> Return(op, args, RList(fill.list), 0),
              opened |-> 1, freed |-> 1]

TagsFaults ==
    {NoFault, FaultAt("git_tag_list")}
    \cup {[at |-> a, k |-> k] :
            a \in {"git_reference_dwim", "git_tag_lookup"}, k \in 1..2}

tags(repoArg, fault) ==
    LET c == TagsCall(repo, tagRefs, repoArg, fault)
    IN  /\ last' = c.last
        /\ handles' = handles + c.opened - c.freed
        /\ UNCHANGED <<repo, commits, refs, head, notes, config, tagRefs>>

-----------------------------------------------------------------------------
(* References *)

GIT_REF_OID == 1

(* git_reference_list: the names of the references of the repository,
   branches first, then tags. *)
git_reference_list(rf, tg) ==
    SelectSeq(<<MasterRef, RemoteRef>>, LAMBDA n : rf[n] # NoCommit)
    \o [i \in 1..Len(git_tag_list(tg)) |-> "refs/tags/" \o git_tag_list(tg)[i]]

(* The return code of the k-th git_reference_lookup. *)
git_reference_lookup(k, fault) ==
    IF Failing(fault, "git_reference_lookup", k) THEN GIT_ERROR ELSE 0

(* init_reference for a direct reference. *)
init_reference(name) ==
    [class |-> "git_reference", name |-> name, type |-> GIT_REF_OID]

(* The loop of references from index i (1-based) on.  Every reference a
   git_reference_lookup returns is counted in `held`: the loop has no
   git_reference_free. *)
RECURSIVE ReferencesFill(_, _, _, _, _)
ReferencesFill(names, i, list, held, fault) ==
    IF i > Len(names) THEN [err |-> 0, list |-> list, held |-> held]
    ELSE LET err == git_reference_lookup(i, fault)
         IN  IF err < 0 THEN [err |-> err, list |-> list, held |-> held]
             ELSE ReferencesFill(names, i + 1,
                                 [list EXCEPT ![i] = init_reference(names[i])],
                                 held + 1, fault)

(* references, from get_repository to the return or the error. *)
ReferencesCall(r, rf, tg, repoArg, fault) ==
    LET args == [repo |-> repoArg]
        op == "references"
        names == git_reference_list(rf, tg)
        fill == ReferencesFill(names, 1, allocVector(Len(names)), 0, fault)
    IN  IF ~get_repository(r, repoArg)
        THEN [last |-> Raise(op, args, git2r_err_invalid_repository, 0, 0),
              opened |-> 0, freed |-> 0]
        ELSE IF Failing(fault, "git_reference_list", 0)
        THEN [last |-> Raise(op, args, git2r_err_from_libgit2, GIT_ERROR, 0),
              opened |-> 1, freed |-> 1]
        ELSE IF fill.err < 0
        THEN [last |-> [Raise(op, args, git2r_err_from_libgit2, fill.err, 0)
                          EXCEPT !.held = fill.held],
              opened |-> 1, freed |-> 1]
        ELSE [last |-> [Return(op, args, RList(fill.list), 0)
                          EXCEPT !.held = fill.held],
              opened |-> 1, freed |-> 1]

ReferencesFaults ==
    {NoFault, FaultAt("git_reference_list")}
    \cup {[at |-> "git_reference_lookup", k |-> k] : k \in 1..2}

references(repoArg, fault) ==
    LET c == ReferencesCall(repo, refs, tagRefs, repoArg, fault)
    IN  /\ last' = c.last
        /\ handles' = handles + c.opened - c.freed
        /\ UNCHANGED <<repo, commits, refs, head, notes, config, tagRefs>>

-----------------------------------------------------------------------------
(* checkout *)

git2r_err_invalid_checkout_args == "Invalid arguments to checkout"

(* The classes of treeish checkout has an action for. *)
CheckoutClasses == {"git_commit", "git_tag", "git_tree"}

(* The test of checkout on its treeish: an S4 object of one of the three
   classes, or the string "HEAD". *)
CheckoutAccepts(treeish) ==
    \/ treeish.class \in CheckoutClasses
    \/ treeish = ScalarString("HEAD")

(* `err` of checkout is declared without a value and no action assigns
   one; its value at the test `err < 0` is indeterminate.  When it is
   read as negative, giterr_last() is dereferenced: it is NULL when the
   library has recorded no error (the process ends), else the routine
   raises that stale error. *)
CheckoutErrOutcomes == {"not negative", "negative, stale error", "negative, no error"}

(* checkout, from the argument checks to the return or the error.
   args.opens is the number of repository handles opened. *)
CheckoutCall(r, repoArg, treeish, ub) ==
    LET op == "checkout"
        args(o) == [repo |-> repoArg, treeish |-> treeish, opens |-> o]
    IN  IF R_NilValue = repoArg \/ R_NilValue = treeish \/ ~CheckoutAccepts(treeish)
        THEN [last |-> Raise(op, args(0), git2r_err_invalid_checkout_args, 0, 0),
              opened |-> 0, freed |-> 0]
        ELSE IF ~get_repository(r, repoArg)
        THEN [last |-> Raise(op, args(0), git2r_err_invalid_repository, 0, 0),
              opened |-> 0, freed |-> 0]
        ELSE IF ub = "not negative"
        THEN [last |-> Return(op, args(1), R_NilValue, 0), opened |-> 1, freed |-> 1]
        ELSE IF ub = "negative, stale error"
        THEN [last |-> Raise(op, args(1), git2r_err_from_libgit2, GIT_ERROR, 0),
              opened |-> 1, freed |-> 1]
        ELSE [last |-> [Raise(op, args(1), "giterr_last() is NULL", GIT_ERROR, 0)
                          EXCEPT !.status = "crash"],
              opened |-> 1, freed |-> 1]

TreeishArgs ==
    {R_NilValue, ScalarString("HEAD"), ScalarString("master"),
     [class |-> "git_commit"], [class |-> "git_tag"], [class |-> "git_tree"],
     [class |-> "git_blob"]}

checkout(repoArg, treeish, ub) ==
    LET c == CheckoutCall(repo, repoArg, treeish, ub)
    IN  /\ last' = c.last
        /\ handles' = handles + c.opened - c.freed
        /\ UNCHANGED <<repo, commits, refs, head, notes, config, tagRefs>>

-----------------------------------------------------------------------------
(* The two passes of a listing, with other writers in between *)

(* A listing between its passes: the list is allocated from the count
   and the repository handle is open. *)
Counted(op, args, n) ==
    [Return(op, args, RList(allocVector(n)), 1) EXCEPT !.status = "counted"]

(* revisions up to PROTECT(list = allocVector(VECSXP, n)). *)
RevisionsCountPass ==
    /\ get_repository(repo, RepositoryObject(RepoPath))
    /\ git_repository_is_empty(refs, head) = 0
    /\ git_revwalk_push_head(refs, head, NoFault, 1) = 0
    /\ last' = Counted("revisions", [repo |-> RepositoryObject(RepoPath), walkers |-> 1],
                       number_of_revisions(RevWalk(commits, HeadTarget(refs, head)),
                                           NoFault))
    /\ handles' = handles + 1
    /\ UNCHANGED <<tagRefs, repo, commits, refs, head, notes, config>>

(* revisions from git_revwalk_reset to the return or the error. *)
RevisionsFillPass(ub) ==
    /\ last.op = "revisions" /\ last.status = "counted"
    /\ LET fill == RevisionsFill(RevWalk(commits, HeadTarget(refs, head)), 0,
                                 last.value.items, last.args.repo, NoFault)
       IN  last' = IF fill.oob
                   THEN IF ub = "crash"
                        THEN [Raise(last.op, last.args, "undefined behaviour", 0, 1)
                                EXCEPT !.status = "crash"]
                        ELSE [Return(last.op, last.args, RList(fill.list), 0)
                                EXCEPT !.status = "overrun"]
                   ELSE Return(last.op, last.args, RList(fill.list), 0)
    /\ handles' = handles - 1
    /\ UNCHANGED <<tagRefs, repo, commits, refs, head, notes, config>>

(* branches up to PROTECT(list = allocVector(VECSXP, n)). *)
BranchesCountPass(flags) ==
    /\ get_repository(repo, RepositoryObject(RepoPath))
    /\ last' = Counted("branches", [repo |-> RepositoryObject(RepoPath), flags |-> flags],
                       number_of_branches(BranchNames(refs, flags), NoFault).n)
    /\ handles' = handles + 1
    /\ UNCHANGED <<tagRefs, repo, commits, refs, head, notes, config>>

(* branches from the second git_branch_iterator_new to the return or
   the error. *)
BranchesFillPass(ub) ==
    /\ last.op = "branches" /\ last.status = "counted"
    /\ last' = BranchesFinish(last.op, last.args, config, refs, head,
                              BranchNames(refs, last.args.flags),
                              [err |-> 0, n |-> Len(last.value.items)], NoFault, ub)
    /\ handles' = handles - 1
    /\ UNCHANGED <<tagRefs, repo, commits, refs, head, notes, config>>

(* git2r_note_list up to PROTECT(result = allocVector(VECSXP, cb_data.n)). *)
NoteListCountPass(ref) ==
    /\ git2r_repository_open(repo, RepositoryObject(RepoPath))
    /\ NoteListCount(notes, ref, NoFault).err = 0
    /\ last' = Counted("git2r_note_list",
                       [repo |-> RepositoryObject(RepoPath), ref |-> ScalarString(ref)],
                       NoteListCount(notes, ref, NoFault).n)
    /\ handles' = handles + 1
    /\ UNCHANGED <<tagRefs, repo, commits, refs, head, notes, config>>

(* git2r_note_list from the second git_note_foreach to the return or
   the error. *)
NoteListFillPass ==
    /\ last.op = "git2r_note_list" /\ last.status = "counted"
    /\ LET ref == last.args.ref.v
           fill == NoteListFill(notes, ref, last.args.repo, NoteEntries(notes, ref),
                                0, last.value.items, NoFault)
       IN  last' = IF fill.oob
                   THEN [Raise(last.op, last.args, "undefined behaviour", 0, 0)
                           EXCEPT !.status = "undefined"]
                   ELSE Return(last.op, last.args, RList(fill.list), 0)
    /\ handles' = handles - 1
    /\ UNCHANGED <<tagRefs, repo, commits, refs, head, notes, config>>

(* Another process adds a note to the default notes reference, or
   removes one. *)
OtherNoteCreate(oid) ==
    /\ repo.exists
    /\ ~HasNote(notes, DefaultNotesRef, oid)
    /\ notes' = git_note_create(notes, DefaultNotesRef, oid, "m1", 0).notes
    /\ UNCHANGED <<tagRefs, repo, commits, refs, head, config, handles, last>>

OtherNoteRemove(oid) ==
    /\ repo.exists
    /\ HasNote(notes, DefaultNotesRef, oid)
    /\ notes' = git_note_remove(notes, DefaultNotesRef, oid).notes
    /\ UNCHANGED <<tagRefs, repo, commits, refs, head, config, handles, last>>

(* Another process deletes the remote-tracking branch. *)
DeleteRemoteRef ==
    /\ repo.exists
    /\ refs[RemoteRef] # NoCommit
    /\ ~(head.symbolic /\ head.name = RemoteRef)
    /\ refs' = [refs EXCEPT ![RemoteRef] = NoCommit]
    /\ UNCHANGED <<tagRefs, repo, commits, head, notes, config, handles, last>>

-----------------------------------------------------------------------------
(* A notes mutation with another writer inside the library call *)

(* A mutation that has read the notes tree of its reference and has not
   yet written the new tree and moved the reference. *)
TreeRead(op, args, ns, ref) ==
    [Return(op, args, [class |-> "notes tree", at |-> ns[ref]], 0)
       EXCEPT !.status = "read"]

(* git2r_note_create up to the point where git_note_create has read the
   current notes tree; the binding holds no lock. *)
NoteCreateRead(oid, msg, ref, force) ==
    /\ git2r_repository_open(repo, RepositoryObject(RepoPath))
    /\ ~HasNote(notes, ref, oid) \/ Overwrite(force) = 1
    /\ last' = TreeRead("git2r_note_create",
                        [repo |-> RepositoryObject(RepoPath), hex |-> oid,
                         message |-> msg, ref |-> ref, force |-> force],
                        notes, ref)
    /\ handles' = handles + 1
    /\ UNCHANGED <<tagRefs, repo, commits, refs, head, notes, config>>

(* git_note_create writes the tree it derived from the one it read and
   moves the reference to it; git2r_note_init reads the note back. *)
NoteCreateWrite ==
    /\ last.op = "git2r_note_create" /\ last.status = "read"
    /\ LET a == last.args
           cr == git_note_create([notes EXCEPT ![a.ref] = last.value.at],
                                 a.ref, a.hex, a.message, 1)
           init == git2r_note_init(cr.notes, Blob(a.message), a.hex, a.ref,
                                   a.repo, NoFault, 0)
       IN  /\ notes' = cr.notes
           /\ last' = Return(last.op, a, init.note, 0)
    /\ handles' = handles - 1
    /\ UNCHANGED <<tagRefs, repo, commits, refs, head, config>>

(* git2r_note_remove up to the point where git_note_remove has read the
   current notes tree. *)
NoteRemoveRead(oid, ref) ==
    /\ git2r_repository_open(repo, RepositoryObject(RepoPath))
    /\ HasNote(notes, ref, oid)
    /\ last' = TreeRead("git2r_note_remove",
                        [note |-> [class |-> "git_note", hex |-> Blob(notes[ref].tree[oid]),
                                   annotated |-> oid, message |-> notes[ref].tree[oid],
                                   refname |-> ref, repo |-> RepositoryObject(RepoPath)]],
                        notes, ref)
    /\ handles' = handles + 1
    /\ UNCHANGED <<tagRefs, repo, commits, refs, head, notes, config>>

(* git_note_remove writes the tree it derived from the one it read and
   moves the reference to it. *)
NoteRemoveWrite ==
    /\ last.op = "git2r_note_remove" /\ last.status = "read"
    /\ LET note == last.args.note
           rm == git_note_remove([notes EXCEPT ![note.refname] = last.value.at],
                                 note.refname, note.annotated)
       IN  /\ notes' = rm.notes
           /\ last' = Return(last.op, last.args, R_NilValue, 0)
    /\ handles' = handles - 1
    /\ UNCHANGED <<tagRefs, repo, commits, refs, head, config>>

-----------------------------------------------------------------------------
(* Other writers of the repository *)

(* A commit is written and HEAD (its branch, or HEAD itself when
   detached) moves to it. *)
WriteCommit(parents, time) ==
    /\ repo.exists
    /\ Len(commits) < MaxCommits
    /\ parents \in ParentLists(Len(commits))
    /\ commits' = Append(commits, [parents |-> parents, time |-> time])
    /\ IF head.symbolic
       THEN refs' = [refs EXCEPT ![head.name] = Len(commits) + 1] /\ head' = head
       ELSE head' = [head EXCEPT !.target = Len(commits) + 1] /\ refs' = refs
    /\ UNCHANGED <<tagRefs, repo, notes, config, handles, last>>

(* HEAD is detached at a commit. *)
DetachHead(c) ==
    /\ repo.exists
    /\ c \in 1..Len(commits)
    /\ head' = [symbolic |-> FALSE, name |-> "", target |-> c]
    /\ UNCHANGED <<tagRefs, repo, commits, refs, notes, config, handles, last>>

(* HEAD is pointed at a reference, as git symbolic-ref does. *)
SetHead(name) ==
    /\ repo.exists
    /\ head # [symbolic |-> TRUE, name |-> name, target |-> NoCommit]
    /\ head' = [symbolic |-> TRUE, name |-> name, target |-> NoCommit]
    /\ UNCHANGED <<tagRefs, repo, commits, refs, notes, config, handles, last>>

(* The remote-tracking reference is moved to a commit, as a fetch does. *)
UpdateRemoteRef(c) ==
    /\ repo.exists
    /\ c \in 1..Len(commits)
    /\ refs[RemoteRef] # c
    /\ refs' = [refs EXCEPT ![RemoteRef] = c]
    /\ UNCHANGED <<tagRefs, repo, commits, head, notes, config, handles, last>>

(* A tag is created at a commit: lightweight (the reference points at the
   commit) or annotated (the reference points at a tag object). *)
CreateTag(name, kind, c) ==
    /\ repo.exists
    /\ c \in 1..Len(commits)
    /\ tagRefs[name].kind = "none"
    /\ tagRefs' = [tagRefs EXCEPT ![name] = [kind |-> kind, target |-> c]]
    /\ UNCHANGED <<repo, commits, refs, head, notes, config, handles, last>>

(* A tag is deleted. *)
DeleteTag(name) ==
    /\ repo.exists
    /\ tagRefs[name].kind # "none"
    /\ tagRefs' = [tagRefs EXCEPT ![name] = NoTag]
    /\ UNCHANGED <<repo, commits, refs, head, notes, config, handles, last>>

-----------------------------------------------------------------------------
(* Specifications *)

Init ==
    /\ repo = [exists |-> FALSE, bare |-> FALSE]
    /\ commits = <<>>
    /\ refs = [n \in RefNames |-> NoCommit]
    /\ head = [symbolic |-> TRUE, name |-> MasterRef, target |-> NoCommit]
    /\ notes = [ref \in NotesRefs |-> NoNotesRef]
    /\ config = [notesRef |-> DefaultNotesRef, remoteUrl |-> NoRemote]
    /\ tagRefs = [n \in TagNames |-> NoTag]
    /\ handles = 0
    /\ last = Idle

InitCalls ==
    \E pathArg \in PathArgs, bareArg \in BareArgs,
       fault \in {NoFault, FaultAt("git_repository_init")} :
        git2r_repository_init(pathArg, bareArg, fault)

NoteCreateCalls ==
    \E valid \in BOOLEAN, repoArg \in RepoArgs, oid \in Objects,
       msg \in Messages, ref \in NotesRefs, force \in BOOLEAN,
       fault \in NoteCreateFaults :
        git2r_note_create(valid, repoArg, oid, msg, ref, force, fault)

NoteListCalls ==
    \E repoArg \in RepoArgs, refArg \in NotesRefArgs, fault \in NoteListFaults :
        git2r_note_list(repoArg, refArg, fault)

NoteRemoveCalls ==
    \E valid \in BOOLEAN, note \in NoteArgs, fault \in NoteRemoveFaults :
        git2r_note_remove(valid, note, fault)

ConfigCalls ==
    \E repoArg \in RepoArgs, variables \in ConfigVariables, fault \in ConfigFaults :
        git2r_config(repoArg, variables, fault)

(* R takes the outcome of the call; the next call starts from here. *)
Forget ==
    /\ last # Idle
    /\ last' = Idle
    /\ UNCHANGED <<tagRefs, repo, commits, refs, head, notes, config, handles>>

NextNotes ==
    \/ last = Idle /\ InitCalls
    \/ last = Idle /\ ConfigCalls
    \/ last = Idle /\ NoteCreateCalls
    \/ last = Idle /\ NoteListCalls
    \/ last = Idle /\ NoteRemoveCalls
    \/ Forget

SpecNotes == Init /\ [][NextNotes]_vars

RevisionsCalls ==
    \E repoArg \in RepoArgs, fault \in RevisionsFaults, ub \in {"crash", "overrun"} :
        revisions(repoArg, fault, ub)

GraphDescendantOfCalls ==
    \E commit \in CommitArgs, ancestor \in CommitArgs,
       fault \in {NoFault, FaultAt("git_graph_descendant_of")} :
        /\ ancestor.repo = commit.repo
        /\ git2r_graph_descendant_of(commit, ancestor, fault)

(* The calls R can make, `ancestor` being whatever R passes. *)
GraphDescendantOfAnyCalls ==
    \E commit \in CommitArgs, ancestor \in CommitArgs \cup {R_NilValue},
       fault \in {NoFault, FaultAt("git_graph_descendant_of")} :
        /\ HasSlot(ancestor, "repo") => ancestor.repo = commit.repo
        /\ git2r_graph_descendant_of(commit, ancestor, fault)
        /\ handles' <= MaxHandles

WriteCommits ==
    \E parents \in ParentLists(MaxCommits), time \in Times :
        WriteCommit(parents, time)

DetachHeads == \E c \in 1..MaxCommits : DetachHead(c)

NextGraph ==
    \/ last = Idle /\ InitCalls
    \/ last = Idle /\ WriteCommits
    \/ last = Idle /\ RevisionsCalls
    \/ last = Idle /\ GraphDescendantOfCalls
    \/ Forget

SpecGraph == Init /\ [][NextGraph]_vars

(* In the repository specification history is a single line. *)
WriteLinearCommits ==
    WriteCommit(IF commits = <<>> THEN <<>> ELSE <<Len(commits)>>, 1)

SetHeads == \E name \in RefNames : SetHead(name)

UpdateRemoteRefs == \E c \in 1..MaxCommits : UpdateRemoteRef(c)

RepositoryHeadCalls ==
    \E repoArg \in RepoArgs, fault \in RepositoryHeadFaults :
        git2r_repository_head(repoArg, fault)

HeadDetachedCalls ==
    \E repoArg \in RepoArgs,
       fault \in {NoFault, FaultAt("git_repository_head_detached")} :
        git2r_repository_head_detached(repoArg, fault)

IsBareCalls == \E repoArg \in RepoArgs : git2r_repository_is_bare(repoArg)

RepositoryWorkdirCalls ==
    \E repoArg \in RepoArgs, ub \in MkCharNullOutcomes :
        git2r_repository_workdir(repoArg, ub)

WorkdirCalls ==
    \E repoArg \in RepoArgs, ub \in MkCharNullOutcomes : workdir(repoArg, ub)

OpenFaults == {NoFault, FaultAt("git_repository_open")}

CanOpenCalls ==
    \E pathArg \in PathArgs, fault \in OpenFaults :
        git2r_repository_can_open(pathArg, fault)

IsRepositoryCalls ==
    \E pathArg \in PathArgs, fault \in OpenFaults : is_repository(pathArg, fault)

IsEmptyCalls ==
    \E repoArg \in RepoArgs,
       fault \in {NoFault, FaultAt("git_repository_is_empty")} :
        git2r_repository_is_empty(repoArg, fault)

FetchCalls ==
    \E repoArg \in RepoArgs, nameArg \in RemoteNameArgs, tip \in 0..MaxCommits,
       fault \in FetchFaults :
        fetch(repoArg, nameArg, tip, fault)

DiscoverCalls ==
    \E pathArg \in DiscoverPathArgs,
       fault \in {NoFault, FaultAt("git_repository_discover")} :
        git2r_repository_discover(pathArg, fault)

NextRepo ==
    \/ last = Idle /\ InitCalls
    \/ last = Idle /\ WriteLinearCommits
    \/ last = Idle /\ DetachHeads
    \/ last = Idle /\ SetHeads
    \/ last = Idle /\ UpdateRemoteRefs
    \/ last = Idle /\ RepositoryHeadCalls
    \/ last = Idle /\ HeadDetachedCalls
    \/ last = Idle /\ IsBareCalls
    \/ last = Idle /\ RepositoryWorkdirCalls
    \/ last = Idle /\ WorkdirCalls
    \/ last = Idle /\ CanOpenCalls
    \/ last = Idle /\ IsRepositoryCalls
    \/ last = Idle /\ DiscoverCalls
    \/ last = Idle /\ IsEmptyCalls
    \/ last = Idle /\ RevisionsCalls
    \/ last = Idle /\ ConfigCalls
    \/ last = Idle /\ FetchCalls
    \/ Forget

SpecRepo == Init /\ [][NextRepo]_vars

(* No call is running, or a listing is between its passes. *)
OthersMayWrite == last = Idle \/ last.status = "counted"

ListingStarts ==
    \/ RevisionsCountPass
    \/ \E flags \in BranchFlags : BranchesCountPass(flags)
    \/ \E ref \in NotesRefs : NoteListCountPass(ref)

ListingEnds ==
    \E ub \in {"crash", "overrun"} :
        \/ RevisionsFillPass(ub)
        \/ BranchesFillPass(ub)
        \/ NoteListFillPass

OtherWrites ==
    \/ WriteLinearCommits
    \/ UpdateRemoteRefs
    \/ DeleteRemoteRef
    \/ \E oid \in Objects : OtherNoteCreate(oid)
    \/ \E oid \in Objects : OtherNoteRemove(oid)

NextListing ==
    \/ last = Idle /\ InitCalls
    \/ last = Idle /\ ListingStarts
    \/ ListingEnds
    \/ OthersMayWrite /\ OtherWrites
    \/ last.status # "counted" /\ Forget

SpecListing == Init /\ [][NextListing]_vars

NoteMutationStarts ==
    \/ \E oid \in Objects, msg \in Messages, ref \in NotesRefs, force \in BOOLEAN :
          NoteCreateRead(oid, msg, ref, force)
    \/ \E oid \in Objects, ref \in NotesRefs : NoteRemoveRead(oid, ref)

OtherNoteWrites ==
    \/ \E oid \in Objects : OtherNoteCreate(oid)
    \/ \E oid \in Objects : OtherNoteRemove(oid)

NextRace ==
    \/ last = Idle /\ InitCalls
    \/ last = Idle /\ NoteMutationStarts
    \/ NoteCreateWrite
    \/ NoteRemoveWrite
    \/ (last = Idle \/ last.status = "read") /\ OtherNoteWrites
    \/ last.status # "read" /\ Forget

SpecRace == Init /\ [][NextRace]_vars

-----------------------------------------------------------------------------
(* Notes: properties *)

(* The notes git2r_note_list holds for a reference: one git_note per entry
   of the notes tree, in tree order. *)
NotesOf(ns, ref, repoArg) ==
    LET e == NoteEntries(ns, ref)
    IN  [i \in 1..Len(e) |->
            [class |-> "git_note", hex |-> Blob(ns[ref].tree[e[i]]),
             annotated |-> e[i], message |-> ns[ref].tree[e[i]],
             refname |-> ref, repo |-> repoArg]]

(* The messages of the notes for `oid` in the list git2r_note_list
   returns for `ref` when no library call fails. *)
ListedMessages(ns, ref, oid) ==
    LET call == NoteListCall([exists |-> TRUE, bare |-> FALSE], ns, config,
                             RepositoryObject(RepoPath), ScalarString(ref), NoFault)
        items == call.last.value.items
        hits == SelectSeq(items, LAMBDA n : n.annotated = oid)
    IN  [i \in 1..Len(hits) |-> hits[i].message]

(* C1: git2r_note_create without force on an object that already has a
   note under the reference raises an error, the already-exists error of
   git_note_create when no other library call fails first, and leaves
   every note and notes reference as it was; with force it succeeds. *)
C1_CreateFailsUnlessForce ==
    [][last'.op = "git2r_note_create" =>
        LET a == last'.args
        IN  \A fault \in NoteCreateFaults :
              ( /\ git2r_note_create(TRUE, a.repo, a.hex, a.message, a.ref,
                                     a.force, fault)
                /\ git2r_repository_open(repo, a.repo)
                /\ HasNote(notes, a.ref, a.hex) )
              => IF a.force
                 THEN fault = NoFault => last'.status = "ok"
                 ELSE /\ last'.status = "error"
                      /\ notes' = notes
                      /\ fault.at \in {"none", "git_note_read"}
                            => last'.err = GIT_EEXISTS]_vars

C1_Witness ==
    /\ last.op = "git2r_note_create"
    /\ last.status = "error"
    /\ last.err = GIT_EEXISTS
    /\ ~last.args.force
    /\ HasNote(notes, last.args.ref, last.args.hex)
    /\ notes[last.args.ref].tree[last.args.hex] # last.args.message

(* C2: the note git2r_note_list shows for X carries the message of the
   last successful git2r_note_create: a create that returns leaves exactly
   one note for X, with its message, and a create that raises an error
   leaves the listed note for X as it was. *)
C2_LastSuccessfulCreate ==
    [][\A oid \in Objects, ref \in NotesRefs :
          ( /\ last'.op = "git2r_note_create"
            /\ last'.args.hex = oid
            /\ last'.args.ref = ref )
          => IF last'.status = "ok"
             THEN ListedMessages(notes', ref, oid) = <<last'.args.message>>
             ELSE ListedMessages(notes', ref, oid) = ListedMessages(notes, ref, oid)]_vars

(* C3: git2r_note_remove raises an error, the not-found error of
   git_note_remove when no other library call fails first, if the object
   has no note under the note's refname; a remove that returns leaves no
   note for the object in the list and every other note as it was. *)
C3_RemoveNotFound ==
    [][last'.op = "git2r_note_remove" =>
        LET note == last'.args.note
        IN  \A fault \in NoteRemoveFaults :
              ( /\ git2r_note_remove(TRUE, note, fault)
                /\ git2r_repository_open(repo, note.repo) )
              => /\ ~HasNote(notes, note.refname, note.annotated)
                      => /\ last'.status = "error"
                         /\ notes' = notes
                         /\ fault = NoFault => last'.err = GIT_ENOTFOUND
                 /\ last'.status = "ok"
                      => /\ HasNote(notes, note.refname, note.annotated)
                         /\ ListedMessages(notes', note.refname, note.annotated) = <<>>
                         /\ \A ref \in NotesRefs, oid \in Objects :
                               <<ref, oid>> # <<note.refname, note.annotated>>
                                 => /\ notes'[ref].tree[oid] = notes[ref].tree[oid]
                                    /\ ListedMessages(notes', ref, oid)
                                          = ListedMessages(notes, ref, oid)]_vars

C3_Witness ==
    /\ last.op = "git2r_note_remove"
    /\ last.status = "error"
    /\ last.err = GIT_ENOTFOUND
    /\ notes[last.args.note.refname].exists
    /\ \E oid \in Objects : HasNote(notes, last.args.note.refname, oid)

(* The library calls of the two passes that fail under `fault`. *)
IterationFails(ns, ref, fault) ==
    \/ fault.at = "git_note_foreach" /\ (fault.k = 1 \/ ns[ref].exists)
    \/ /\ fault.at = "git_note_read"
       /\ ns[ref].exists
       /\ fault.k <= Len(NoteEntries(ns, ref))

(* C4: git2r_note_list reads the repository's default notes reference
   when ref is R_NilValue, returns an empty list when the notes reference
   does not exist, returns the notes of the reference otherwise, and raises
   an error for every other failure of the iteration. *)
C4_ListDefaultRefAndNotFound ==
    [][last'.op = "git2r_note_list" =>
        LET repoArg == last'.args.repo
            refArg == last'.args.ref
        IN  \A fault \in NoteListFaults :
              ( /\ git2r_note_list(repoArg, refArg, fault)
                /\ git2r_repository_open(repo, repoArg)
                /\ refArg.class # "logical"
                /\ ~(refArg = R_NilValue /\ fault.at = "git_note_default_ref") )
              => LET ref == IF refArg = R_NilValue
                            THEN git_note_default_ref(config) ELSE refArg.v
                 IN  IF IterationFails(notes, ref, fault)
                     THEN last'.status = "error" /\ last'.err < 0
                     ELSE /\ last'.status = "ok"
                          /\ last'.value = RList(NotesOf(notes, ref, repoArg))
                          /\ ~notes[ref].exists => last'.value = RList(<<>>)]_vars

C4_Witness ==
    /\ last.op = "git2r_note_list"
    /\ last.status = "ok"
    /\ last.args.ref = R_NilValue
    /\ config.notesRef # DefaultNotesRef
    /\ ~notes[config.notesRef].exists
    /\ last.value = RList(<<>>)
    /\ \E ref \in NotesRefs, oid \in Objects : HasNote(notes, ref, oid)

-----------------------------------------------------------------------------
(* The commit graph: properties *)

(* C5: revisions on an empty repository (no commit, no reference) returns
   a list of length 0, makes no walker and raises no error, whatever the
   library calls after get_repository answer. *)
C5_EmptyRepositoryEmptyList ==
    ( /\ last.op = "revisions"
      /\ get_repository(repo, last.args.repo)
      /\ commits = <<>> )
    => /\ last.status = "ok"
       /\ last.value = RList(<<>>)
       /\ last.args.walkers = 0

C5_Witness ==
    /\ last.op = "revisions"
    /\ get_repository(repo, last.args.repo)
    /\ commits = <<>>
    /\ HeadTarget(refs, head) = NoCommit
    /\ last.status = "ok"

(* `a` is reachable from `c` by one or more parent links. *)
ReachableByParents(cs, c, a) ==
    \E len \in 2..Len(cs) :
        \E path \in [1..len -> 1..Len(cs)] :
            /\ path[1] = c
            /\ path[len] = a
            /\ \A i \in 1..(len - 1) : path[i + 1] \in Range(cs[path[i]].parents)

(* The positions of commit `c` in a list of git_commit objects. *)
PositionsOf(items, c) == {i \in 1..Len(items) : items[i].hex = c}

(* C6: the list revisions returns holds each commit reachable from HEAD
   exactly once, and a child before its parent. *)
C6_EachReachableOnceChildFirst ==
    ( /\ last.op = "revisions"
      /\ last.status = "ok"
      /\ HeadTarget(refs, head) # NoCommit )
    => LET items == last.value.items
           h == HeadTarget(refs, head)
           reach == {h} \cup {a \in 1..Len(commits) : ReachableByParents(commits, h, a)}
       IN  /\ \A c \in reach : Cardinality(PositionsOf(items, c)) = 1
           /\ \A i \in 1..Len(items) : items[i].hex \in reach
           /\ \A c \in reach : \A q \in Range(commits[c].parents) :
                 \A i \in PositionsOf(items, c), j \in PositionsOf(items, q) : i < j

(* C7: git2r_graph_descendant_of returns FALSE for a commit and itself,
   TRUE exactly when the ancestor is reachable from the commit by one or
   more parent links, and raises an error when the library's result is
   negative; a positive result of any size counts as TRUE. *)
C7_DescendantOf ==
    [][last'.op = "git2r_graph_descendant_of" =>
        LET commit == last'.args.commit
            ancestor == last'.args.ancestor
            known == {commit.hex, ancestor.hex} \subseteq 1..Len(commits)
        IN  \A fault \in {NoFault, FaultAt("git_graph_descendant_of")} :
              ( /\ git2r_graph_descendant_of(commit, ancestor, fault)
                /\ git2r_repository_open(repo, commit.repo) )
              => IF fault # NoFault \/ ~known
                 THEN last'.status = "error" /\ last'.err < 0
                 ELSE /\ last'.status = "ok"
                      /\ last'.value = ScalarLogical(
                            ReachableByParents(commits, commit.hex, ancestor.hex))
                      /\ commit.hex = ancestor.hex
                            => last'.value = ScalarLogical(FALSE)
                      /\ \A result \in 1..2 : DescendantOfResult(result) = "TRUE"]_vars

(* The ancestor is reached through the second parent only. *)
C7_Witness ==
    /\ last.op = "git2r_graph_descendant_of"
    /\ last.status = "ok"
    /\ last.value = ScalarLogical(TRUE)
    /\ LET c == last.args.commit.hex
           a == last.args.ancestor.hex
       IN  /\ Len(commits[c].parents) = 2
           /\ a # commits[c].parents[1]
           /\ ~ReachableByParents(commits, commits[c].parents[1], a)

-----------------------------------------------------------------------------
(* The repository: properties *)

(* C8: when no library call fails, git2r_repository_head returns
   R_NilValue iff HEAD is unborn, a git_branch iff HEAD is born and not
   detached, and a git_commit iff HEAD is detached, that is, exactly when
   git2r_repository_head_detached returns TRUE on the same state. *)
C8_HeadMatchesHeadState ==
    [][last'.op = "git2r_repository_head" =>
        LET repoArg == last'.args.repo
            detached == HeadDetachedCall(repo, head, repoArg, NoFault).last
            born == HeadTarget(refs, head) # NoCommit
        IN  ( /\ git2r_repository_head(repoArg, NoFault)
              /\ git2r_repository_open(repo, repoArg) )
            => /\ last'.status = "ok"
               /\ detached.status = "ok"
               /\ last'.value.class \in {"NULL", "git_branch", "git_commit"}
               /\ last'.value = R_NilValue <=> ~born
               /\ last'.value.class = "git_branch"
                     <=> (born /\ detached.value = ScalarLogical(FALSE))
               /\ last'.value.class = "git_commit"
                     <=> detached.value = ScalarLogical(TRUE)]_vars

(* C9: for a repository that opens, both workdir routines return
   R_NilValue iff git2r_repository_is_bare returns TRUE and a one-element
   path otherwise, and never hand a NULL path to mkChar. *)
C9_WorkdirAbsentIffBare ==
    ( /\ last.op \in {"git2r_repository_workdir", "workdir"}
      /\ git2r_repository_open(repo, last.args.repo) )
    => LET bare == IsBareCall(repo, last.args.repo).last.value
       IN  /\ last.status = "ok"
           /\ last.args.mkChar # NullPointer
           /\ last.value = R_NilValue <=> bare = ScalarLogical(TRUE)
           /\ bare = ScalarLogical(FALSE) => last.value = ScalarString(RepoPath)

(* C10 as stated: for every path argument git2r_repository_can_open
   returns a boolean, TRUE iff the repository at the path can be opened,
   never raises an error and leaves no repository handle open. *)
C10_CanOpenNeverThrows ==
    [][last'.op = "git2r_repository_can_open" =>
        \A fault \in OpenFaults :
            git2r_repository_can_open(last'.args.path, fault)
            => /\ last'.status = "ok"
               /\ last'.value.class = "logical"
               /\ handles' = handles]_vars

(* C10 amended: for every path that is a character string
   git2r_repository_can_open returns TRUE iff git_repository_open
   succeeds on it and FALSE otherwise, never raises an error and leaves
   no repository handle open; for a path that is not a character string
   it raises the string-argument error before it opens anything.
   is_repository of git2r.c does the same. *)
C10_CanOpenNeverThrowsForStrings ==
    [][last'.op \in {"git2r_repository_can_open", "is_repository"} =>
        LET pathArg == last'.args.path
        IN  \A fault \in OpenFaults :
              ( \/ git2r_repository_can_open(pathArg, fault)
                \/ is_repository(pathArg, fault) )
              => /\ handles' = handles
                 /\ IF pathArg.class = "character"
                    THEN /\ last'.status = "ok"
                         /\ last'.value = ScalarLogical(
                               fault = NoFault /\ pathArg.v = RepoPath /\ repo.exists)
                    ELSE /\ last'.status = "error"
                         /\ last'.args.opens = 0]_vars

C10_Witness ==
    /\ last.op = "git2r_repository_can_open"
    /\ last.status = "ok"
    /\ last.value = ScalarLogical(TRUE)
    /\ repo.exists
    /\ handles = 0

(* C11: for a path that is a character string, git2r_repository_discover
   returns R_NilValue, raising nothing, when git_repository_discover finds
   no repository from the path; returns the repository's git directory
   when the path is the repository's root or a directory nested in it; and
   raises an error for a failure other than not-found. *)
C11_DiscoverNothingWhenNotFound ==
    [][last'.op = "git2r_repository_discover" =>
        LET pathArg == last'.args.path
            inside == repo.exists /\ pathArg.v \in {RepoPath, SubPath}
        IN  \A fault \in {NoFault, FaultAt("git_repository_discover")} :
              ( /\ git2r_repository_discover(pathArg, fault)
                /\ pathArg.class = "character" )
              => IF fault # NoFault
                 THEN last'.status = "error" /\ last'.err # GIT_ENOTFOUND
                 ELSE /\ last'.status = "ok"
                      /\ ~inside => last'.value = R_NilValue
                      /\ inside => last'.value = ScalarString(GitDir(repo))]_vars

(* Nothing from an unrelated directory while the repository exists. *)
C11_Witness ==
    /\ last.op = "git2r_repository_discover"
    /\ last.status = "ok"
    /\ last.value = R_NilValue
    /\ last.args.path = ScalarString("Q")
    /\ repo.exists

(* What the routines answer on repository `r` when no library call
   fails. *)
CanOpenOf(r) == CanOpenCall(r, ScalarString(RepoPath), NoFault).last
IsBareOf(r) == IsBareCall(r, RepositoryObject(RepoPath)).last
IsEmptyOf(r, rf, hd) == IsEmptyCall(r, rf, hd, RepositoryObject(RepoPath), NoFault).last
HeadOf(r, cs, rf, hd) ==
    RepositoryHeadCall(r, cs, rf, hd, RepositoryObject(RepoPath), NoFault).last
RevisionsOf(r, cs, rf, hd) ==
    RevisionsCall(r, cs, rf, hd, RepositoryObject(RepoPath), NoFault, "crash").last

(* C12: a successful git2r_repository_init on a fresh location leaves a
   repository whose is_bare is the bare argument; as long as no commit is
   written can_open is TRUE, is_empty is TRUE, head returns R_NilValue and
   revisions returns an empty list; once a commit exists is_empty is
   FALSE. *)
C12_FreshRepository ==
    [][/\ (last'.op = "git2r_repository_init" /\ last'.status = "ok")
            => /\ repo'.exists /\ commits' = <<>>
               /\ IsBareOf(repo').value = last'.args.bare
       /\ (repo'.exists /\ commits' = <<>>)
            => /\ CanOpenOf(repo').value = ScalarLogical(TRUE)
               /\ IsEmptyOf(repo', refs', head').value = ScalarLogical(TRUE)
               /\ HeadOf(repo', commits', refs', head').status = "ok"
               /\ HeadOf(repo', commits', refs', head').value = R_NilValue
               /\ RevisionsOf(repo', commits', refs', head').status = "ok"
               /\ RevisionsOf(repo', commits', refs', head').value = RList(<<>>)
       /\ (repo'.exists /\ commits' # <<>>)
            => IsEmptyOf(repo', refs', head').value = ScalarLogical(FALSE)]_vars

(* is_empty has answered TRUE on a bare repository fresh from init. *)
C12_Witness ==
    /\ last.op = "git2r_repository_is_empty"
    /\ last.status = "ok"
    /\ last.value = ScalarLogical(TRUE)
    /\ repo.exists /\ repo.bare
    /\ commits = <<>>

(* C13: no operation returns its normal value after a library call has
   answered a negative error code; it raises an error. *)
C13_NoErrorSwallowed ==
    last.err < 0 => last.status = "error"

-----------------------------------------------------------------------------
(* Listings: properties *)

(* C14: whatever other writers do between the counting pass and the
   filling pass of branches, revisions and git2r_note_list, the fill never
   stores at or past the allocated length and the returned list has no
   unfilled slot. *)
C14_ListingSurvivesWriters ==
    ( /\ last.op \in {"branches", "revisions", "git2r_note_list"}
      /\ last.status # "counted" )
    => /\ last.status \in {"ok", "error"}
       /\ last.status = "ok"
            => \A i \in 1..Len(last.value.items) : last.value.items[i] # R_NilValue

(* C15: a git2r_note_create or git2r_note_remove that reports success
   while another process has changed the note of a different object under
   the same reference leaves that other change in place: no object but
   its own has its note changed by the call. *)
C15_NoLostUpdate ==
    [][( /\ last.status = "read"
         /\ last'.op \in {"git2r_note_create", "git2r_note_remove"}
         /\ last'.status = "ok" )
       => LET ref == IF last'.op = "git2r_note_create"
                     THEN last'.args.ref ELSE last'.args.note.refname
              own == IF last'.op = "git2r_note_create"
                     THEN last'.args.hex ELSE last'.args.note.annotated
          IN  \A oid \in Objects \ {own} :
                  ListedMessages(notes', ref, oid) = ListedMessages(notes, ref, oid)]_vars

-----------------------------------------------------------------------------
(* Tags *)

CreateTags ==
    \E name \in TagNames, kind \in {"lightweight", "annotated"}, c \in 1..MaxCommits :
        CreateTag(name, kind, c)

DeleteTags == \E name \in TagNames : DeleteTag(name)

TagsCalls ==
    \E repoArg \in RepoArgs, fault \in TagsFaults :
        last = Idle /\ tags(repoArg, fault)

NextTags ==
    \/ last = Idle /\ InitCalls
    \/ WriteLinearCommits
    \/ CreateTags
    \/ DeleteTags
    \/ TagsCalls
    \/ Forget

SpecTags == Init /\ [][NextTags]_vars

(* C18: unless the library itself fails (GIT_ERROR), tags succeeds on every
   repository, whether a tag reference points at an annotated tag object
   or directly at a commit, and returns one git_tag entry per tag name in
   the order of the name list. *)
C18_TagsListsEveryTag ==
    ( /\ last.op = "tags"
      /\ last.args.repo = RepositoryObject(RepoPath)
      /\ last.msg # git2r_err_invalid_repository
      /\ last.err # GIT_ERROR )
    => /\ last.status = "ok"
       /\ [i \in 1..Len(last.value.items) |-> last.value.items[i].name]
            = git_tag_list(tagRefs)

-----------------------------------------------------------------------------
(* Branches *)

BranchesCalls ==
    \E repoArg \in RepoArgs, flags \in BranchFlags, fault \in BranchesFaults,
       ub \in {"crash", "overrun"} :
        branches(repoArg, flags, fault, ub)

NextBranches ==
    \/ last = Idle /\ InitCalls
    \/ last = Idle /\ WriteLinearCommits
    \/ last = Idle /\ DetachHeads
    \/ last = Idle /\ SetHeads
    \/ last = Idle /\ UpdateRemoteRefs
    \/ last = Idle /\ ConfigCalls
    \/ last = Idle /\ BranchesCalls
    \/ Forget

SpecBranches == Init /\ [][NextBranches]_vars

(* The branch HEAD resolves to: the reference a symbolic HEAD names, when
   that reference exists; none when HEAD is detached or unborn. *)
HeadBranch ==
    IF head.symbolic /\ refs[head.name] # NoCommit THEN {head.name} ELSE {}

(* C19: in the list branches returns, a branch has head = TRUE iff HEAD
   resolves to it, so at most one has; a remote branch carries a remote
   name and a URL, a local branch neither; and a listing that met an
   unexpected branch type or head result ended with an error and no list. *)
C19_BranchEntries ==
    last.op = "branches"
    => /\ last.status = "ok"
          => LET items == last.value.items
             IN  /\ \A i \in 1..Len(items) :
                       /\ items[i].head <=> items[i].name \in HeadBranch
                       /\ IF git_branch_type(items[i].name) = GIT_BRANCH_REMOTE
                          THEN items[i].remote # "unset" /\ items[i].url # "unset"
                          ELSE items[i].remote = "unset" /\ items[i].url = "unset"
                 /\ Cardinality({i \in 1..Len(items) : items[i].head}) <= 1
       /\ last.msg \in {git2r_err_unexpected_type_of_branch,
                        git2r_err_unexpected_head_of_branch}
          => last.status = "error" /\ last.value = R_NilValue

(* A listing of local and remote branches with HEAD on the local one. *)
C19_Witness ==
    /\ last.op = "branches"
    /\ last.status = "ok"
    /\ Len(last.value.items) = 2
    /\ last.value.items[1].head
    /\ ~last.value.items[2].head
    /\ last.value.items[2].url = RemoteUrl

(* An unexpected branch type ended the listing. *)
C19_WitnessUnexpected ==
    /\ last.op = "branches"
    /\ last.status = "error"
    /\ last.msg = git2r_err_unexpected_type_of_branch

(* C20: a revisions or branches call that does not raise an error ended
   both of its passes at the end of the iteration: it returns normally,
   with as many entries as the iteration has, never a list that an
   iterator error cut short or one filled past its counted length. *)
C20_ExhaustionIsNotFailure ==
    ( /\ last.op \in {"revisions", "branches"}
      /\ last.status # "error"
      /\ last.err = 0 )
    => /\ last.status = "ok"
       /\ Len(last.value.items)
            = IF last.op = "revisions"
              THEN IF HeadTarget(refs, head) = NoCommit THEN 0
                   ELSE Len(RevWalk(commits, HeadTarget(refs, head)))
              ELSE Len(BranchNames(refs, last.args.flags))

-----------------------------------------------------------------------------
(* Repository handles *)

NextHandles ==
    \/ last = Idle /\ InitCalls
    \/ last = Idle /\ WriteLinearCommits
    \/ last = Idle /\ CreateTags
    \/ last = Idle /\ IsEmptyCalls
    \/ last = Idle /\ RevisionsCalls
    \/ last = Idle /\ BranchesCalls
    \/ last = Idle /\ TagsCalls
    \/ last = Idle /\ GraphDescendantOfAnyCalls
    \/ Forget

SpecHandles == Init /\ [][NextHandles]_vars

(* C17: every operation frees the repository handle it opened on every
   exit path, so whenever a call has returned or raised an error no
   repository handle is open. *)
C17_NoHandleLeftOpen ==
    last.status \in {"ok", "error"} => handles = 0

-----------------------------------------------------------------------------
(* Native resources of the items of a list *)

ReferencesCalls ==
    \E repoArg \in RepoArgs, fault \in ReferencesFaults :
        references(repoArg, fault)

NextResources ==
    \/ last = Idle /\ InitCalls
    \/ last = Idle /\ WriteLinearCommits
    \/ last = Idle /\ UpdateRemoteRefs
    \/ last = Idle /\ ConfigCalls
    \/ last = Idle /\ CreateTags
    \/ last = Idle /\ ReferencesCalls
    \/ last = Idle /\ BranchesCalls
    \/ last = Idle /\ TagsCalls
    \/ Forget

SpecResources == Init /\ [][NextResources]_vars

(* C21: whenever references, branches or tags has returned or raised an
   error, every reference, buffer, remote and tag it acquired for an item
   of its list has been released. *)
C21_ItemResourcesReleased ==
    ( /\ last.op \in {"references", "branches", "tags"}
      /\ last.status \in {"ok", "error"} )
    => last.held = 0

(* C22: in every operation the protection stack is balanced: whenever a
   call has returned or raised an error it has UNPROTECTed exactly the
   objects it PROTECTed; revisions in particular, when no walker could be
   made or HEAD could not be pushed before the list exists. *)
C22_ProtectionBalanced ==
    last.status \in {"ok", "error"} => last.protect = 0

-----------------------------------------------------------------------------
(* checkout *)

CheckoutCalls ==
    \E repoArg \in RepoArgs, treeish \in TreeishArgs, ub \in CheckoutErrOutcomes :
        checkout(repoArg, treeish, ub)

NextCheckout ==
    \/ last = Idle /\ InitCalls
    \/ last = Idle /\ WriteLinearCommits
    \/ last = Idle /\ CreateTags
    \/ last = Idle /\ CheckoutCalls
    \/ Forget

SpecCheckout == Init /\ [][NextCheckout]_vars

(* C23: checkout changes nothing in the repository; called on a
   repository that can be opened with a git_commit, git_tag or git_tree
   object or the string "HEAD", it opens and frees the repository and
   returns R_NilValue without raising an error; with any other treeish,
   or a nil repo or treeish, it raises the invalid-arguments error before
   a repository is opened. *)
C23_CheckoutIsAStub ==
    [][last'.op = "checkout" =>
        LET a == last'.args
        IN  /\ UNCHANGED <<repo, commits, refs, head, notes, config, tagRefs>>
            /\ handles' = handles
            /\ IF a.repo # R_NilValue /\ a.treeish # R_NilValue /\ CheckoutAccepts(a.treeish)
               THEN get_repository(repo, a.repo)
                    => /\ last'.status = "ok"
                       /\ last'.value = R_NilValue
                       /\ a.opens = 1
               ELSE /\ last'.status = "error"
                    /\ last'.msg = git2r_err_invalid_checkout_args
                    /\ a.opens = 0]_vars

(* C24: with no other writer during the call, the two passes of
   revisions, branches and git2r_note_list agree: a call that does not
   raise an error returns normally, the filling pass having stored
   nothing past the counted length and having filled every slot of the
   list. *)
C24_PassesAgree ==
    ( /\ last.op \in {"revisions", "branches", "git2r_note_list"}
      /\ last.status \notin {"error", "counted"} )
    => /\ last.status = "ok"
       /\ \A i \in 1..Len(last.value.items) : last.value.items[i] # R_NilValue

(* C16: a git2r_note_create that raises an error, a failing read-back in
   git2r_note_init after git_note_create included, leaves every notes
   reference and the notes listed for it as they were. *)
C16_FailedCreateLeavesNothing ==
    [][( /\ last'.op = "git2r_note_create"
         /\ last'.status = "error" )
       => /\ notes' = notes
          /\ \A ref \in NotesRefs, oid \in Objects :
                ListedMessages(notes', ref, oid) = ListedMessages(notes, ref, oid)]_vars

====
